---------------------------- MODULE Spec2Model ----------------------------
(***************************************************************************)
(* Hybrid job search: the offline index builder (build_index.py) and the   *)
(* query-time engine (src/search_engine.py).                               *)
(*                                                                         *)
(* Conventions.                                                            *)
(*  - Python None is the empty tuple <<>>, a present value v is <<v>>.     *)
(*  - Row indices are 1-based here (row r of the model is row r-1 of the   *)
(*    NumPy arrays); "smaller row index" means the same in both.           *)
(*  - Vector components are in thousandths, embedding weights and the      *)
(*    additive boosts in hundredths, so a dense score is an integer count  *)
(*    of 1e-8 units; the lexical weight is in tenths.  Fused scores are    *)
(*    exact fractions num/den.  -inf is a score with fin = FALSE.          *)
(***************************************************************************)
EXTENDS Integers, Sequences, FiniteSets, TLC

VARIABLES
    ds,          \* the loaded JobDataset: jobs, three matrices, lexical index
    sortTies,    \* how this build's NumPy sort orders equal keys
    called,      \* TRUE once a search call has returned
    req,         \* arguments of the last search call
    out,         \* locals and return value of the last search call
    loaded,      \* history: the dataset as it was loaded
    failed,      \* history: TRUE once a search call has raised
    src,         \* build_index: the lines of the JSONL source file
    max_jobs,    \* build_index: the --max-jobs cap, or None
    bpc,         \* build_index: where the run is
    pos,         \* number of lines the current pass has consumed
    seen,        \* dedup keys seen by the current pass
    count,       \* pass 1: unique records counted
    embed_dim,   \* pass 1: detected embedding dimension (0: none yet)
    total,       \* the count pass 1 returned
    row,         \* pass 2: next matrix row to write, 0-based
    jobs,        \* pass 2: the Job list being built
    dupes,       \* pass 2: duplicates skipped
    disk,        \* DATA_DIR: jobs.pkl and the three .npy files
    origin,      \* history: the source line each job / matrix row came from
    prior,       \* history: DATA_DIR as it was when this run started
    run,         \* history: 1 for the first build, 2 for a repeated one
    now,         \* time.time(), in whole seconds
    _request_log, \* api/routes.py: per client IP, the timestamps still kept
    admitted,    \* history: per client IP, every timestamp that was appended
    _sessions,   \* SessionStore._sessions: session id -> Session
    issued,      \* number of uuid4 session ids generated so far
    _cache,      \* EmbeddingClient._cache, least recently used entry first
    intent,      \* the ParsedIntent of the last search request
    resp,        \* outcome of the last API request
    ecall,       \* trace of the last EmbeddingClient.embed call
    threads      \* per worker thread: its position in _check_rate_limit

searchVars == <<ds, sortTies, called, req, out, loaded, failed>>
buildVars == <<src, max_jobs, bpc, pos, seen, count, embed_dim, total, row,
               jobs, dupes, disk, origin, prior, run>>
serviceVars == <<now, _request_log, admitted, _sessions, issued, _cache,
                 intent, resp, ecall, threads>>
vars == <<searchVars, buildVars, serviceVars>>

None == <<>>
Some(v) == <<v>>
IsNone(o) == o = <<>>
Val(o) == o[1]

\* Python truthiness of an optional string / of a list.
TruthyStr(o) == o /= None /\ Val(o) /= ""
TruthySeq(s) == Len(s) > 0

\* No artifact in DATA_DIR.
NoArtifacts == [jobs |-> None, explicit |-> None, inferred |-> None, company |-> None]
NoOrigin == [jobs |-> <<>>, explicit |-> <<>>, inferred |-> <<>>, company |-> <<>>]

\* No build is running in this process.
BuildOff ==
    /\ src = <<>> /\ max_jobs = None /\ bpc = "off" /\ pos = 0 /\ seen = {}
    /\ count = 0 /\ embed_dim = 0 /\ total = 0 /\ row = 0 /\ jobs = <<>>
    /\ dupes = 0 /\ disk = NoArtifacts /\ origin = NoOrigin
    /\ prior = NoArtifacts /\ run = 0

\* The serving layer (api/, src/embeddings.py) is not running.
ServiceOff ==
    /\ now = 0 /\ _request_log = <<>> /\ admitted = <<>> /\ _sessions = <<>>
    /\ issued = 0 /\ _cache = <<>> /\ intent = <<>> /\ resp = <<>>
    /\ ecall = <<>> /\ threads = <<>>

Range(s) == {s[i] : i \in DOMAIN s}
Reverse(s) == [i \in 1..Len(s) |-> s[Len(s) + 1 - i]] \o <<>>
Min2(a, b) == IF a <= b THEN a ELSE b
\* An array held by value (a tuple), not as an unevaluated rule.
Array(f) == f \o <<>>

RECURSIVE SumOver(_, _)
\* sum of f[i] over the finite index set S
SumOver(f, S) ==
    IF S = {} THEN 0
    ELSE LET i == CHOOSE x \in S : TRUE IN f[i] + SumOver(f, S \ {i})

Dot(u, v) == SumOver([k \in DOMAIN u |-> u[k] * v[k]], DOMAIN u)


(***************************************************************************)
(* Filter policy (search_engine.py, _seniority_matches and                 *)
(* _job_passes_filters).                                                   *)
(***************************************************************************)
_SENIORITY_ALIASES(f) ==
    CASE f = "entry level"  -> {"entry level", "entry", "junior", "entry-level"}
      [] f = "mid level"    -> {"mid level", "mid", "intermediate", "mid-level"}
      [] f = "senior level" -> {"senior level", "senior", "sr", "senior-level"}
      [] f = "manager"      -> {"manager", "management"}
      [] f = "director"     -> {"director"}
      [] f = "internship"   -> {"internship", "intern"}
      [] OTHER              -> {}

\* Mutant of _seniority_matches: the alias table is not consulted.
SeniorityExactOnly(job_seniority, filter_seniority) ==
    job_seniority = filter_seniority

_seniority_matches(job_seniority, filter_seniority) ==
    \/ job_seniority = filter_seniority
    \/ job_seniority \in _SENIORITY_ALIASES(filter_seniority)

\* Mutant of RemoteExcludes: the "job.remote_type is not None" guard left out.
RemoteExcludesNoNullGuard(job, f) ==
    /\ TruthyStr(f.remote_type)
    /\ job.remote_type /= f.remote_type

\* Mutant of IndustriesExcludes: the "job.industries and" guard left out.
IndustriesExcludesNoEmptyGuard(job, f) ==
    /\ TruthySeq(f.industries)
    /\ Range(job.industries) \cap Range(f.industries) = {}

\* Each of the six checks, TRUE when that check returns False in the code.
RemoteExcludes(job, f) ==
    /\ TruthyStr(f.remote_type) /\ job.remote_type /= None
    /\ Val(job.remote_type) /= Val(f.remote_type)

SeniorityExcludes(job, f) ==
    /\ TruthyStr(f.seniority_level) /\ job.seniority_level /= None
    /\ ~_seniority_matches(Val(job.seniority_level), Val(f.seniority_level))

EmploymentExcludes(job, f) ==
    /\ TruthyStr(f.employment_type) /\ job.employment_type /= None
    /\ Val(job.employment_type) /= Val(f.employment_type)

CompanyTypeExcludes(job, f) ==
    /\ TruthyStr(f.company_type) /\ job.company_type /= None
    /\ Val(job.company_type) /= Val(f.company_type)

\* Mutant of SalaryExcludes: the job's salary_min is compared.
SalaryExcludesByMin(job, f) ==
    /\ f.min_salary /= None
    /\ job.salary_min /= None /\ Val(job.salary_min) < Val(f.min_salary)

SalaryExcludes(job, f) ==
    /\ f.min_salary /= None
    /\ job.salary_max /= None /\ Val(job.salary_max) < Val(f.min_salary)

IndustriesExcludes(job, f) ==
    /\ TruthySeq(f.industries)
    /\ TruthySeq(job.industries)
    /\ Range(job.industries) \cap Range(f.industries) = {}

_job_passes_filters(job, f) ==
    /\ ~RemoteExcludes(job, f)
    /\ ~SeniorityExcludes(job, f)
    /\ ~EmploymentExcludes(job, f)
    /\ ~CompanyTypeExcludes(job, f)
    /\ ~SalaryExcludes(job, f)
    /\ ~IndustriesExcludes(job, f)

\* SearchFilters() with every field at its default.
EmptyFilters ==
    [remote_type |-> None, seniority_level |-> None, employment_type |-> None,
     company_type |-> None, min_salary |-> None, industries |-> <<>>]

\* EmbeddingWeights() defaults, in hundredths.
DefaultWeights == [explicit |-> 50, inferred |-> 30, company |-> 20]

(***************************************************************************)
(* Scores.  A score is [fin, num, den]: the fraction num/den (den > 0), or *)
(* -inf when fin is FALSE.                                                 *)
(***************************************************************************)
NegInf == [fin |-> FALSE, num |-> 0, den |-> 1]
Fin(n, d) == [fin |-> TRUE, num |-> n, den |-> d]

ScoreLt(a, b) ==
    IF ~a.fin THEN b.fin
    ELSE IF ~b.fin THEN FALSE
    ELSE a.num * b.den < b.num * a.den

ScoreEq(a, b) == ~ScoreLt(a, b) /\ ~ScoreLt(b, a)
ScoreLe(a, b) == ~ScoreLt(b, a)

(***************************************************************************)
(* np.argsort.  Before(i, j) says key i sorts strictly before key j.  The  *)
(* default kind is an unstable sort: the order of equal keys is fixed for  *)
(* one build of NumPy but not by its contract, so it is the dataset-wide   *)
(* parameter sortTies ("asc": insertion-sort behaviour, equal keys in      *)
(* ascending position; "desc": equal keys in descending position).         *)
(***************************************************************************)
TieBefore(i, j) == IF sortTies = "asc" THEN i < j ELSE i > j

ArgsortPlace(n, Before(_, _), i) ==
    1 + Cardinality({j \in 1..n :
            j /= i /\ (Before(j, i) \/ (~Before(i, j) /\ TieBefore(j, i)))})

ArgsortBy(n, Before(_, _)) ==
    LET place == Array([i \in 1..n |-> ArgsortPlace(n, Before, i)])
    IN  Array([p \in 1..n |-> CHOOSE i \in 1..n : place[i] = p])

\* np.argsort(-scores): descending scores
ArgsortDesc(scores) ==
    ArgsortBy(Len(scores), LAMBDA i, j : ScoreLt(scores[j], scores[i]))

\* np.argsort(scores): ascending scores
ArgsortAsc(scores) ==
    ArgsortBy(Len(scores), LAMBDA i, j : ScoreLt(scores[i], scores[j]))

\* ranks[np.argsort(-scores)] = np.arange(1, n + 1)
RanksOf(scores) ==
    LET order == ArgsortDesc(scores)
    IN  Array([i \in 1..Len(scores) |-> CHOOSE p \in 1..Len(scores) : order[p] = i])


(***************************************************************************)
(* SearchEngine.search (search_engine.py lines 50-151), step by step.      *)
(* A semantic query string is the tuple of its whitespace-separated words. *)
(***************************************************************************)
RRF_K == 60
OneW == 10              \* the 1.0 of "sem_weight = 1.0 - bm25_weight", in tenths
ExclusionPenalty == 30  \* 0.3, in hundredths
SalaryBoost == 5        \* 0.05, in hundredths
SkillBoost == 2         \* 0.02, in hundredths
MaxSkillMatches == 3
Million == 1000 * 1000  \* one hundredth, in dense-score units of 1e-8

\* str.lower() on the words of the model's vocabulary
Lower(s) ==
    CASE s = "Python" -> "python"
      [] s = "SQL"    -> "sql"
      [] s = "GO"     -> "go"
      [] OTHER        -> s

\* data_loader.tokenize: lower-cased words
tokenize(words) == Array([k \in DOMAIN words |-> Lower(words[k])])

\* ds.bm25.get_scores(query_tokens): per job, the number of query tokens
\* that occur in the job's indexed text
Bm25GetScores(docs, tokens) ==
    Array([i \in DOMAIN docs |->
        Cardinality({k \in DOMAIN tokens : tokens[k] \in docs[i]})])

\* Mutant of SemanticBase: the caller's weights are ignored for the defaults.
SemanticBaseDefaultWeights(d, q, w, i) ==
      DefaultWeights.explicit * Dot(d.explicit[i], q)
    + DefaultWeights.inferred * Dot(d.inferred[i], q)
    + DefaultWeights.company  * Dot(d.company[i], q)

\* lines 69-73: weighted sum of the three dot products
SemanticBase(d, q, w, i) ==
      w.explicit * Dot(d.explicit[i], q)
    + w.inferred * Dot(d.inferred[i], q)
    + w.company  * Dot(d.company[i], q)

\* Mutant of ExclusionTotal: each exclusion overwrites the penalty of the one
\* before it, so only the last vector of the list counts.
ExclusionLastOnly(d, excl, i) ==
    IF excl = None \/ Len(Val(excl)) = 0 THEN 0
    ELSE ExclusionPenalty * Dot(d.explicit[i], Val(excl)[Len(Val(excl))])

\* lines 76-79: 0.3 * (explicit row . exc_vec), summed over the exclusions
ExclusionTotal(d, excl, i) ==
    IF excl = None THEN 0
    ELSE SumOver([k \in DOMAIN Val(excl) |->
                     ExclusionPenalty * Dot(d.explicit[i], Val(excl)[k])],
                 DOMAIN Val(excl))

\* lines 82-85
Bm25Raw(d, semantic_query, bm25_weight) ==
    IF /\ semantic_query /= None /\ TruthySeq(Val(semantic_query))
       /\ d.bm25 /= None /\ bm25_weight > 0
    THEN Bm25GetScores(Val(d.bm25), tokenize(Val(semantic_query)))
    ELSE Array([i \in 1..Len(d.jobs) |-> 0])

\* line 93: mask[i] stays True unless filters are given and the job fails
MaskOf(d, filters) ==
    Array([i \in 1..Len(d.jobs) |->
        ~(filters /= None /\ ~_job_passes_filters(d.jobs[i], Val(filters)))])

\* line 90
QueryTermSet(semantic_query) ==
    IF semantic_query /= None /\ TruthySeq(Val(semantic_query))
    THEN {Lower(Val(semantic_query)[k]) : k \in DOMAIN Val(semantic_query)}
    ELSE {}

\* lines 97-98
SalaryBoostOf(job, filters) ==
    IF /\ filters /= None /\ Val(filters).min_salary /= None
       /\ job.salary_min /= None
       /\ Val(job.salary_min) >= Val(Val(filters).min_salary)
    THEN SalaryBoost * Million ELSE 0

\* Mutant of SkillBoostOf: every matching skill counts, without the cap.
SkillBoostUncapped(job, terms) ==
    SkillBoost * Million
        * Cardinality({k \in DOMAIN job.required_skills :
                         Lower(job.required_skills[k]) \in terms})

\* lines 100-103
SkillBoostOf(job, terms) ==
    LET matches == Cardinality({k \in DOMAIN job.required_skills :
                                  Lower(job.required_skills[k]) \in terms})
    IN  IF terms /= {} /\ TruthySeq(job.required_skills) /\ matches > 0
        THEN SkillBoost * Million * Min2(matches, MaxSkillMatches) ELSE 0

\* lines 69-106: the dense score array after penalties, boosts and masking
SemanticScores(d, r, mask) ==
    Array([i \in 1..Len(d.jobs) |->
        IF mask[i]
        THEN Fin(  SemanticBase(d, r.query_embedding, r.weights, i)
                 - ExclusionTotal(d, r.exclusion_embeddings, i)
                 + SalaryBoostOf(d.jobs[i], r.filters)
                 + SkillBoostOf(d.jobs[i], QueryTermSet(r.semantic_query)), 1)
        ELSE NegInf])

\* lines 82-85, 107
Bm25Scores(d, r, mask) ==
    LET raw == Bm25Raw(d, r.semantic_query, r.bm25_weight)
    IN  Array([i \in 1..Len(d.jobs) |-> IF mask[i] THEN Fin(raw[i], 1) ELSE NegInf])

\* Mutant of RRF: sem_weight computed as bm25_weight - 1.0.
RRFSignSlip(bm25_weight, semantic_rank, bm25_rank) ==
    Fin(  (bm25_weight - OneW) * (RRF_K + bm25_rank)
        + bm25_weight * (RRF_K + semantic_rank),
        OneW * (RRF_K + semantic_rank) * (RRF_K + bm25_rank))

\* Mutant of RRF: the two weights applied to the wrong ranks.
RRFSwapped(bm25_weight, semantic_rank, bm25_rank) ==
    Fin(  bm25_weight * (RRF_K + bm25_rank)
        + (OneW - bm25_weight) * (RRF_K + semantic_rank),
        OneW * (RRF_K + semantic_rank) * (RRF_K + bm25_rank))

\* lines 119-123: sem_weight/(K + rank_sem) + bm25_weight/(K + rank_bm25)
RRF(bm25_weight, semantic_rank, bm25_rank) ==
    Fin(  (OneW - bm25_weight) * (RRF_K + bm25_rank)
        + bm25_weight * (RRF_K + semantic_rank),
        OneW * (RRF_K + semantic_rank) * (RRF_K + bm25_rank))

\* Mutant of FusedScores: the post-fusion mask of line 126 left out.
FusedScoresNoMask(bm25_weight, semantic_ranks, bm25_ranks, mask) ==
    Array([i \in DOMAIN mask |->
        RRF(bm25_weight, semantic_ranks[i], bm25_ranks[i])])

\* lines 119-126
FusedScores(bm25_weight, semantic_ranks, bm25_ranks, mask) ==
    Array([i \in DOMAIN mask |->
        IF mask[i] THEN RRF(bm25_weight, semantic_ranks[i], bm25_ranks[i])
        ELSE NegInf])

\* Mutant of ArgpartitionTail: the slice [:top_k], the top_k smallest.
ArgpartitionHead(fused, top_k) ==
    LET order == ArgsortAsc(fused)
    IN  IF top_k = 0 THEN order
        ELSE Array([p \in 1..top_k |-> order[p]])

\* np.argpartition(fused, -top_k)[-top_k:] : the top_k largest, in the order
\* the selection leaves them (here the order of the ascending sort); with
\* top_k = 0 the slice [-0:] is the whole array.
ArgpartitionTail(fused, top_k) ==
    LET order == ArgsortAsc(fused)
        n == Len(fused)
    IN  IF top_k = 0 THEN order
        ELSE Array([p \in 1..top_k |-> order[n - top_k + p]])

\* lines 129-133
TopIndices(fused, top_k) ==
    IF top_k >= Len(fused)
    THEN Reverse(ArgsortAsc(fused))
    ELSE LET part == ArgpartitionTail(fused, top_k)
             sub == Array([p \in DOMAIN part |-> fused[part[p]]])
             ord == Reverse(ArgsortAsc(sub))
         IN  Array([p \in DOMAIN part |-> part[ord[p]]])

\* Mutant of Results: the break on -inf left out.
ResultsNoBreak(d, fused, top_indices, top_k) ==
    Array([p \in 1..Min2(top_k, Len(top_indices)) |->
            [job |-> d.jobs[top_indices[p]], row |-> top_indices[p],
             score |-> fused[top_indices[p]], rank |-> p]])

\* lines 135-143: stop at the first -inf, at most top_k entries
Results(d, fused, top_indices, top_k) ==
    LET m == Min2(top_k, Len(top_indices))
        stop == IF \E p \in 1..m : ~fused[top_indices[p]].fin
                THEN (CHOOSE p \in 1..m :
                        /\ ~fused[top_indices[p]].fin
                        /\ \A o \in 1..(p - 1) : fused[top_indices[o]].fin) - 1
                ELSE m
    IN  Array([p \in 1..stop |->
            [job |-> d.jobs[top_indices[p]], row |-> top_indices[p],
             score |-> fused[top_indices[p]], rank |-> p]])

\* The whole call: every local the claims refer to, and the returned pair.
\* meta.search_time_ms is a wall-clock measurement that nothing reads back;
\* it is left out of the modelled meta.
SearchOut(d, r) ==
    LET mask == MaskOf(d, r.filters)
        semantic_scores == SemanticScores(d, r, mask)
        bm25_scores == Bm25Scores(d, r, mask)
        semantic_ranks == RanksOf(semantic_scores)
        bm25_ranks == RanksOf(bm25_scores)
        fused == FusedScores(r.bm25_weight, semantic_ranks, bm25_ranks, mask)
        top_indices == TopIndices(fused, r.top_k)
    IN  [mask |-> mask,
         semantic_scores |-> semantic_scores,
         bm25_scores |-> bm25_scores,
         semantic_ranks |-> semantic_ranks,
         bm25_ranks |-> bm25_ranks,
         fused_scores |-> fused,
         top_indices |-> top_indices,
         results |-> Results(d, fused, top_indices, r.top_k),
         meta |-> [total_jobs |-> Len(d.jobs),
                   matched_filters |-> Cardinality({i \in DOMAIN mask : mask[i]})]]

\* weights=None takes the defaults (lines 62-63)
Request(q, filters, weights, top_k, excl, semantic_query, bm25_weight) ==
    [query_embedding |-> q,
     filters |-> filters,
     weights |-> IF weights = None THEN DefaultWeights ELSE Val(weights),
     top_k |-> top_k,
     exclusion_embeddings |-> excl,
     semantic_query |-> semantic_query,
     bm25_weight |-> bm25_weight]

\* Mutant of MatmulRaises: only a vector that is too short is refused, a
\* longer one is silently truncated.
MatmulRaisesWhenShorter(matrix, v) ==
    \E i \in DOMAIN matrix : Len(v) < Len(matrix[i])

\* matrix @ vector (lines 70-72 and 78): NumPy raises ValueError unless the
\* rows of the matrix have as many components as the vector.  An empty
\* matrix of the model carries no width and takes the vector's.
MatmulRaises(matrix, v) ==
    \E i \in DOMAIN matrix : Len(matrix[i]) /= Len(v)

\* lines 69-79: the products with the query vector and with every exclusion
\* vector are formed before anything else is done
SearchRaises(d, r) ==
    \/ MatmulRaises(d.explicit, r.query_embedding)
    \/ MatmulRaises(d.inferred, r.query_embedding)
    \/ MatmulRaises(d.company, r.query_embedding)
    \/ /\ r.exclusion_embeddings /= None
       /\ \E k \in DOMAIN Val(r.exclusion_embeddings) :
            MatmulRaises(d.explicit, Val(r.exclusion_embeddings)[k])

\* The exception that leaves search in place of the returned pair.
ValueError == [raised |-> "ValueError"]

\* What one call of search hands back to its caller.
SearchCall(d, r) == IF SearchRaises(d, r) THEN ValueError ELSE SearchOut(d, r)


(***************************************************************************)
(* Bounded inputs.                                                         *)
(***************************************************************************)
MaxJobs == 3        \* corpus size

RECURSIVE SeqsUpTo(_, _)
\* all tuples over S of length 0..n
SeqsUpTo(S, n) ==
    IF n = 0 THEN {<<>>}
    ELSE LET shorter == SeqsUpTo(S, n - 1)
         IN  shorter \cup {Append(s, x) : s \in {t \in shorter : Len(t) = n - 1}, x \in S}

BlankJob ==
    [remote_type |-> None, seniority_level |-> None, employment_type |-> None,
     company_type |-> None, salary_min |-> None, salary_max |-> None,
     required_skills |-> <<>>, industries |-> <<>>]

\* One corpus row: the Job, its three unit (or zero) matrix rows and the
\* token set the lexical index holds for it.
Row(job, e, i, c, doc) ==
    [job |-> job, explicit |-> e, inferred |-> i, company |-> c, doc |-> doc]

\* Rows for the ranking runs.  Rows that pass the "remote" filter take two
\* dense levels and two lexical levels in every combination, so ties occur
\* in either signal; the row that fails it would rank first on both.
RankRows ==
    {Row([BlankJob EXCEPT !.remote_type = Some("remote")], e, <<0, 0>>, <<0, 0>>, doc) :
        e \in {<<1000, 0>>, <<0, 1000>>}, doc \in {{"python"}, {}}}
    \cup
    {Row([BlankJob EXCEPT !.remote_type = Some("onsite")], <<1000, 0>>, <<0, 0>>, <<0, 0>>, {"python"})}

Dataset(rows) ==
    [jobs     |-> [k \in DOMAIN rows |-> rows[k].job],
     explicit |-> [k \in DOMAIN rows |-> rows[k].explicit],
     inferred |-> [k \in DOMAIN rows |-> rows[k].inferred],
     company  |-> [k \in DOMAIN rows |-> rows[k].company],
     bm25     |-> Some([k \in DOMAIN rows |-> rows[k].doc])]

RemoteOnly == [EmptyFilters EXCEPT !.remote_type = Some("remote")]

\* lexical weights in tenths: 0, the default 0.4, 0.5, 1 and the
\* out-of-range 3.0 (search does not validate its bm25_weight)
LexWeights == {0, 4, 5, 10, 30}

NoCall == <<>>

InitSearch ==
    /\ BuildOff
    /\ ServiceOff
    /\ ds \in {Dataset(rows) : rows \in SeqsUpTo(RankRows, MaxJobs)}
    /\ sortTies \in {"asc", "desc"}
    /\ called = FALSE
    /\ req = NoCall
    /\ out = NoCall
    /\ loaded = ds
    /\ failed = FALSE

\* Mutant of Search: "zero out filtered jobs" done on the dataset's explicit
\* matrix rows instead of on the local score arrays.
SearchInPlace(r) ==
    /\ req' = r
    /\ out' = SearchCall(ds, r)
    /\ called' = TRUE
    /\ failed' = (failed \/ SearchRaises(ds, r))
    /\ ds' = [ds EXCEPT !.explicit =
                [i \in DOMAIN ds.explicit |->
                    IF MaskOf(ds, r.filters)[i] THEN ds.explicit[i] ELSE <<0, 0>>]]
    /\ UNCHANGED <<sortTies, loaded, buildVars, serviceVars>>

\* One call of SearchEngine.search; the dataset is only read.
Search(r) ==
    /\ req' = r
    /\ out' = SearchCall(ds, r)
    /\ called' = TRUE
    /\ failed' = (failed \/ SearchRaises(ds, r))
    /\ UNCHANGED <<ds, sortTies, loaded, buildVars, serviceVars>>

\* The request path (api/routes.py, server.py): a lexical query is passed.
SearchRanked ==
    /\ ~called
    /\ \E filters \in {None, Some(RemoteOnly)},
          top_k \in 0..(MaxJobs + 1),
          bm25_weight \in LexWeights :
        Search(Request(<<1000, 0>>, filters, None, top_k, None,
                       Some(<<"Python">>), bm25_weight))

\* No lexical query (demo.py leaves semantic_query out): bm25_weight at its
\* default 0.4, or 0.5.
SearchNoQuery ==
    /\ ~called
    /\ \E filters \in {None, Some(RemoteOnly)},
          top_k \in 0..(MaxJobs + 1),
          bm25_weight \in {4, 5} :
        Search(Request(<<1000, 0>>, filters, None, top_k, None, None, bm25_weight))

\* The caller issues the same request once more.
SearchAgain ==
    /\ called
    /\ Search(req)

\* The caller is done with the response.
Discard ==
    /\ called
    /\ called' = FALSE /\ req' = NoCall /\ out' = NoCall
    /\ UNCHANGED <<ds, sortTies, loaded, failed, buildVars, serviceVars>>

NextSearch == SearchRanked \/ SearchNoQuery \/ SearchAgain \/ Discard

SpecSearch == InitSearch /\ [][NextSearch]_vars


(***************************************************************************)
(* The filter runs: a corpus of one job, whose filterable fields range     *)
(* over absent / present values, searched under every filter bundle.       *)
(***************************************************************************)
FilterJobs ==
    {[BlankJob EXCEPT !.remote_type = rt, !.seniority_level = sl,
                      !.employment_type = et, !.company_type = ct,
                      !.salary_max = sm, !.industries = ind] :
        rt \in {None, Some("remote")},
        sl \in {None, Some("senior"), Some("junior"), Some("senior level")},
        et \in {None, Some("full-time")},
        ct \in {None, Some("public")},
        sm \in {None, Some(90000), Some(150000)},
        ind \in {<<>>, <<"tech">>}}

RemoteTypeValues == {None, Some(""), Some("remote"), Some("onsite")}
SeniorityValues == {None, Some("senior level"), Some("senior"), Some("lead")}
EmploymentValues == {None, Some("full-time"), Some("part-time")}
CompanyTypeValues == {None, Some("public"), Some("private")}
MinSalaryValues == {None, Some(100000)}
IndustriesValues == {<<>>, <<"tech">>, <<"health", "finance">>}

FilterBundles ==
    {[remote_type |-> rt, seniority_level |-> sl, employment_type |-> et,
      company_type |-> ct, min_salary |-> ms, industries |-> ind] :
        rt \in RemoteTypeValues, sl \in SeniorityValues,
        et \in EmploymentValues, ct \in CompanyTypeValues,
        ms \in MinSalaryValues, ind \in IndustriesValues}

\* A one-row corpus has no equal keys to order, so sortTies has no effect.
InitFilter ==
    /\ BuildOff
    /\ ServiceOff
    /\ ds \in {Dataset(<<Row(job, <<1000, 0>>, <<0, 0>>, <<0, 0>>, {})>>) :
                 job \in FilterJobs}
    /\ sortTies = "asc"
    /\ called = FALSE
    /\ req = NoCall
    /\ out = NoCall
    /\ loaded = ds
    /\ failed = FALSE

\* search called with filters omitted or with any filter bundle
SearchFiltered ==
    /\ ~called
    /\ \E filters \in {None} \cup {Some(f) : f \in FilterBundles} :
        Search(Request(<<1000, 0>>, filters, None, 1, None, None, 4))

NextFilter == SearchFiltered \/ SearchAgain \/ Discard

SpecFilter == InitFilter /\ [][NextFilter]_vars

(***************************************************************************)
(* The example runs: corpora of three jobs over the example's three        *)
(* explicit rows [1,0], [0,1], [0.707,0.707] (inferred and company rows    *)
(* zero), each job with one of five (salary_min, salary_max) pairs,        *)
(* searched with the query vector [1,0] and no lexical query.              *)
(***************************************************************************)
ExampleVectors == {<<1000, 0>>, <<0, 1000>>, <<707, 707>>}

SalaryPairs ==
    {<<None, None>>, <<None, Some(90000)>>, <<Some(80000), Some(90000)>>,
     <<Some(50000), Some(150000)>>, <<Some(100000), Some(100000)>>}

ExampleRows ==
    {Row([BlankJob EXCEPT !.salary_min = sp[1], !.salary_max = sp[2]],
         e, <<0, 0>>, <<0, 0>>, {}) :
        e \in ExampleVectors, sp \in SalaryPairs}

MinSalaryOnly == [EmptyFilters EXCEPT !.min_salary = Some(100000)]

ExplicitOnly == [explicit |-> 100, inferred |-> 0, company |-> 0]

InitExample ==
    /\ BuildOff
    /\ ServiceOff
    /\ ds \in {Dataset(<<a, b, c>>) : a \in ExampleRows, b \in ExampleRows, c \in ExampleRows}
    /\ sortTies \in {"asc", "desc"}
    /\ called = FALSE
    /\ req = NoCall
    /\ out = NoCall
    /\ loaded = ds
    /\ failed = FALSE

\* search with no lexical query: filters omitted or min_salary=100000,
\* weights omitted or explicit-only, bm25_weight 0 or the default 0.4.
SearchExample ==
    /\ ~called
    /\ \E filters \in {None, Some(MinSalaryOnly)},
          weights \in {None, Some(ExplicitOnly)},
          top_k \in {2, 3},
          bm25_weight \in {0, 4} :
        Search(Request(<<1000, 0>>, filters, weights, top_k, None, None, bm25_weight))

NextExample == SearchExample \/ SearchAgain \/ Discard

SpecExample == InitExample /\ [][NextExample]_vars

(***************************************************************************)
(* The scoring runs: corpora of two jobs that differ in salary_min,        *)
(* required_skills and remote_type, searched with query vectors of the     *)
(* index width and of other widths, with and without exclusion vectors,    *)
(* a min_salary filter and a lexical query that names skills.              *)
(***************************************************************************)
ScoringJob(rt, sm, skills) ==
    [BlankJob EXCEPT !.remote_type = Some(rt), !.salary_min = sm,
                     !.required_skills = skills]

ScoringRows ==
    {Row(ScoringJob("remote", Some(120000), <<"Python", "SQL", "go", "rust">>),
         <<1000, 0>>, <<0, 1000>>, <<0, 0>>, {"python", "sql"}),
     Row(ScoringJob("remote", Some(80000), <<"Python">>),
         <<0, 1000>>, <<0, 0>>, <<0, 0>>, {"python"}),
     Row(ScoringJob("remote", None, <<>>),
         <<600, 800>>, <<0, 0>>, <<1000, 0>>, {}),
     Row(ScoringJob("remote", Some(100000), <<"machine learning", "Python", "python">>),
         <<800, 600>>, <<0, 0>>, <<0, 0>>, {}),
     Row(ScoringJob("onsite", Some(120000), <<"Python", "SQL", "go">>),
         <<1000, 0>>, <<0, 0>>, <<0, 0>>, {"python"})}

RemoteMinSalary ==
    [EmptyFilters EXCEPT !.remote_type = Some("remote"), !.min_salary = Some(100000)]

\* query vectors: of the index width 2, too short, too long
ScoringQueries == {<<1000, 0>>, <<600, 800>>, <<1000>>, <<1000, 0, 0>>}

\* exclusion_embeddings: omitted, [], one vector, two vectors in either
\* order, the same vector twice, and a list holding a vector of width 3
ScoringExclusions ==
    {None, Some(<<>>), Some(<<<<1000, 0>>>>), Some(<<<<1000, 0>>, <<0, 1000>>>>),
     Some(<<<<0, 1000>>, <<1000, 0>>>>), Some(<<<<600, 800>>, <<600, 800>>>>),
     Some(<<<<0, 1000>>, <<1000, 0, 0>>>>)}

ScoringTexts ==
    {None, Some(<<"python">>), Some(<<"Python", "sql", "GO", "rust">>)}

InitScoring ==
    /\ BuildOff
    /\ ServiceOff
    /\ ds \in {Dataset(<<a, b>>) : a \in ScoringRows, b \in ScoringRows}
    /\ sortTies \in {"asc", "desc"}
    /\ called = FALSE
    /\ req = NoCall
    /\ out = NoCall
    /\ loaded = ds
    /\ failed = FALSE

SearchScored ==
    /\ ~called
    /\ \E q \in ScoringQueries,
          filters \in {None, Some(MinSalaryOnly), Some(RemoteMinSalary)},
          excl \in ScoringExclusions,
          semantic_query \in ScoringTexts,
          top_k \in 1..2 :
        Search(Request(q, filters, None, top_k, excl, semantic_query, 4))

NextScoring == SearchScored \/ SearchAgain \/ Discard

SpecScoring == InitScoring /\ [][NextScoring]_vars

(***************************************************************************)
(* build_index.py: the two-pass index builder.  A source line is blank,    *)
(* unparseable, a JSON value that is not an object, or a record.  Raw      *)
(* vectors are small integer tuples; a normalized component is in          *)
(* thousandths.                                                            *)
(***************************************************************************)
MaxLines == 3       \* lines in the source file
MaxCap == 2         \* largest --max-jobs tried

Blank == [kind |-> "blank"]
Bad == [kind |-> "bad"]
Scalar == [kind |-> "scalar"]
Rec(id, title, v5_name, info_name, e, i, c) ==
    [kind |-> "rec", id |-> id, title |-> title, v5_name |-> v5_name,
     info_name |-> info_name, explicit |-> e, inferred |-> i, company |-> c]

\* Two records with the same dedup key and different vectors, a record
\* whose company name comes from job_information.company_info, a record
\* with no title, no company and no vector, a record whose inferred vector
\* is the empty list, and a record whose company vector has one component.
SourceLines ==
    {Blank, Bad, Scalar,
     Rec(Some("a"), Some("Dev"), Some("Acme"), None, Some(<<3, 4>>), None, None),
     Rec(Some("b"), Some(" dev "), Some("ACME"), None, Some(<<0, 5>>), Some(<<3, 4>>), None),
     Rec(None, Some("Ops"), None, Some("Acme"), None, None, Some(<<0, 5>>)),
     Rec(None, None, None, None, None, None, None),
     Rec(Some("e"), Some("Web"), Some("Acme"), None, Some(<<3, 4>>), Some(<<>>), None),
     Rec(Some("s"), Some("QA"), Some("Acme"), None, Some(<<0, 5>>), None, Some(<<5>>))}

\* str.lower().strip() on the model's titles and company names
LowerStrip(s) ==
    CASE s = "Dev"   -> "dev"
      [] s = " dev " -> "dev"
      [] s = "Ops"   -> "ops"
      [] s = "Acme"  -> "acme"
      [] s = "ACME"  -> "acme"
      [] OTHER       -> s

\* Python "a or b" on optional strings: the first truthy one, else the last
OrElse(a, b) == IF TruthyStr(a) THEN a ELSE b

\* Mutant of DedupKey: the key compares titles and company names as written.
DedupKeyAsWritten(raw) ==
    LET title == OrElse(raw.title, Some(""))
        company == OrElse(OrElse(raw.v5_name, raw.info_name), Some(""))
    IN  <<Val(title), Val(company)>>

\* lines 55-59 and 189-193: (title.lower().strip(), company.lower().strip())
DedupKey(raw) ==
    LET title == OrElse(raw.title, Some(""))
        company == OrElse(OrElse(raw.v5_name, raw.info_name), Some(""))
    IN  <<LowerStrip(Val(title)), LowerStrip(Val(company))>>

\* Mutant of Pass1Duplicate: pass 1 counts every record, duplicate or not.
Pass1CountsDuplicates(key, keys) == FALSE

\* line 60: "if key in seen" of pass 1
Pass1Duplicate(key, keys) == key \in keys

\* line 194: "if key in seen" of pass 2
Pass2Duplicate(key, keys) == key \in keys

\* "max_jobs and n >= max_jobs" (lines 42 and 176)
Capped(cap, n) == cap /= None /\ Val(cap) /= 0 /\ n >= Val(cap)

\* lines 65-71: the length of the first non-empty vector of the record
DetectDim(raw) ==
    IF raw.explicit /= None /\ TruthySeq(Val(raw.explicit)) THEN Len(Val(raw.explicit))
    ELSE IF raw.inferred /= None /\ TruthySeq(Val(raw.inferred)) THEN Len(Val(raw.inferred))
    ELSE IF raw.company /= None /\ TruthySeq(Val(raw.company)) THEN Len(Val(raw.company))
    ELSE 0

\* _parse_job, the fields the build's control flow and the claims read;
\* i is the 0-based line number
_parse_job(raw, i) ==
    [id |-> IF raw.id = None THEN <<"unknown", i>> ELSE raw.id,
     title |-> raw.title,
     company_name |-> IF TruthyStr(raw.v5_name) THEN raw.v5_name ELSE raw.info_name]

ISqrt(n) == CHOOSE r \in 0..n : r * r <= n /\ n < (r + 1) * (r + 1)

\* lines 203-210: _norm
_norm(v, dim) ==
    IF v = None THEN [k \in 1..dim |-> 0]
    ELSE LET arr == Val(v)
             norm == ISqrt(SumOver([k \in DOMAIN arr |-> arr[k] * arr[k]], DOMAIN arr))
         IN  IF norm > 0 THEN [k \in DOMAIN arr |-> (arr[k] * 1000) \div norm]
             ELSE arr

\* "mmap[row] = arr": the row as stored, or None when NumPy raises (row out
\* of range, or a length that does not broadcast to dim)
Stored(arr, dim, r, rows) ==
    IF r >= rows THEN None
    ELSE IF Len(arr) = dim THEN Some(arr)
    ELSE IF Len(arr) = 1 THEN Some([k \in 1..dim |-> arr[1]])
    ELSE None

Zeros(rows, dim) == [r \in 1..rows |-> [k \in 1..dim |-> 0]]

\* DATA_DIR as an earlier build of another source file left it: one job.
PriorArtifacts ==
    [jobs |-> Some(<<[id |-> Some("old"), title |-> Some("Old"),
                      company_name |-> Some("Acme")]>>),
     explicit |-> Some(<<<<1000, 0>>>>),
     inferred |-> Some(<<<<0, 1000>>>>),
     company |-> Some(<<<<0, 0>>>>)]

\* Mutant of NothingToBuild: only an empty record count stops the build.
NothingToBuildCountOnly(n, dim) == n = 0

\* line 153: "if total == 0 or embed_dim == 0"
NothingToBuild(n, dim) == n = 0 \/ dim = 0

\* Mutant of InitialJobs: pass 2 appends to the job list already pickled.
ResumeJobs(d) == IF d.jobs = None THEN <<>> ELSE Val(d.jobs)

\* line 170: "jobs: list[Job] = []"; d is DATA_DIR, which the code does not read
InitialJobs(d) == <<>>

SearchOff ==
    /\ ds = Dataset(<<>>) /\ sortTies = "asc"
    /\ called = FALSE /\ req = NoCall /\ out = NoCall
    /\ loaded = ds /\ failed = FALSE

InitBuild ==
    /\ SearchOff
    /\ ServiceOff
    /\ src \in SeqsUpTo(SourceLines, MaxLines)
    /\ max_jobs \in {None} \cup {Some(c) : c \in 1..MaxCap}
    /\ bpc = "pass1"
    /\ pos = 0 /\ seen = {} /\ count = 0 /\ embed_dim = 0 /\ total = 0
    /\ row = 0 /\ jobs = <<>> /\ dupes = 0
    /\ disk \in {NoArtifacts, PriorArtifacts}
    /\ prior = disk
    /\ run = 1
    /\ origin = NoOrigin

\* One iteration of the loop of _count_and_detect (lines 41-73).
Pass1Line ==
    /\ bpc = "pass1" /\ pos < Len(src) /\ ~Capped(max_jobs, count)
    /\ pos' = pos + 1
    /\ LET raw == src[pos + 1] IN
         \/ /\ raw.kind \in {"blank", "bad"}
            /\ UNCHANGED <<bpc, seen, count, embed_dim>>
         \/ /\ raw.kind = "scalar"       \* raw.get raises AttributeError
            /\ bpc' = "raised"
            /\ UNCHANGED <<seen, count, embed_dim>>
         \/ /\ raw.kind = "rec" /\ Pass1Duplicate(DedupKey(raw), seen)
            /\ UNCHANGED <<bpc, seen, count, embed_dim>>
         \/ /\ raw.kind = "rec" /\ ~Pass1Duplicate(DedupKey(raw), seen)
            /\ seen' = seen \cup {DedupKey(raw)}
            /\ embed_dim' = IF embed_dim = 0 THEN DetectDim(raw) ELSE embed_dim
            /\ count' = count + 1
            /\ UNCHANGED bpc
    /\ UNCHANGED <<searchVars, serviceVars, src, max_jobs, total, row, jobs, dupes, disk, origin,
                   prior, run>>

\* _count_and_detect returns; build_index returns early when there is
\* nothing to build (lines 150-155).
Pass1Return ==
    /\ bpc = "pass1" /\ (pos = Len(src) \/ Capped(max_jobs, count))
    /\ total' = count
    /\ bpc' = IF NothingToBuild(count, embed_dim) THEN "noop" ELSE "alloc"
    /\ UNCHANGED <<searchVars, serviceVars, src, max_jobs, pos, seen, count, embed_dim, row,
                   jobs, dupes, disk, origin, prior, run>>

\* lines 159-172: the three .npy files are created as zeros((total, dim)).
Allocate ==
    /\ bpc = "alloc"
    /\ disk' = [disk EXCEPT !.explicit = Some(Zeros(total, embed_dim)),
                            !.inferred = Some(Zeros(total, embed_dim)),
                            !.company = Some(Zeros(total, embed_dim))]
    /\ origin' = [jobs |-> <<>>,
                  explicit |-> [r \in 1..total |-> 0],
                  inferred |-> [r \in 1..total |-> 0],
                  company |-> [r \in 1..total |-> 0]]
    /\ bpc' = "pass2" /\ pos' = 0 /\ seen' = {} /\ jobs' = InitialJobs(disk)
    /\ row' = 0 /\ dupes' = 0
    /\ UNCHANGED <<searchVars, serviceVars, src, max_jobs, count, embed_dim, total, prior, run>>

\* The three row writes of lines 212-214, in order, stopping at the first
\* that raises: the new disk, the new origin and whether all three succeeded.
WriteRows(raw, lineNo) ==
    LET e == Stored(_norm(raw.explicit, embed_dim), embed_dim, row, total)
        i == Stored(_norm(raw.inferred, embed_dim), embed_dim, row, total)
        c == Stored(_norm(raw.company, embed_dim), embed_dim, row, total)
        okE == e /= None
        okI == okE /\ i /= None
        okC == okI /\ c /= None
        put(m, ok, v) == IF ok THEN Some([Val(disk[m]) EXCEPT ![row + 1] = Val(v)])
                         ELSE disk[m]
        src_(m, ok) == IF ok THEN [origin[m] EXCEPT ![row + 1] = lineNo] ELSE origin[m]
    IN  [disk |-> [disk EXCEPT !.explicit = put("explicit", okE, e),
                               !.inferred = put("inferred", okI, i),
                               !.company = put("company", okC, c)],
         origin |-> [origin EXCEPT !.explicit = src_("explicit", okE),
                                   !.inferred = src_("inferred", okI),
                                   !.company = src_("company", okC),
                                   !.jobs = Append(origin.jobs, lineNo)],
         ok |-> okC]

\* One iteration of the loop of pass 2 (lines 175-218).
Pass2Line ==
    /\ bpc = "pass2" /\ pos < Len(src) /\ ~Capped(max_jobs, row)
    /\ pos' = pos + 1
    /\ LET raw == src[pos + 1] IN
         \/ /\ raw.kind \in {"blank", "bad"}
            /\ UNCHANGED <<bpc, seen, row, jobs, dupes, disk, origin>>
         \/ /\ raw.kind = "scalar"
            /\ bpc' = "raised"
            /\ UNCHANGED <<seen, row, jobs, dupes, disk, origin>>
         \/ /\ raw.kind = "rec" /\ Pass2Duplicate(DedupKey(raw), seen)
            /\ dupes' = dupes + 1
            /\ UNCHANGED <<bpc, seen, row, jobs, disk, origin>>
         \/ /\ raw.kind = "rec" /\ ~Pass2Duplicate(DedupKey(raw), seen)
            /\ seen' = seen \cup {DedupKey(raw)}
            /\ jobs' = Append(jobs, _parse_job(raw, pos))
            /\ LET w == WriteRows(raw, pos + 1) IN
                 /\ disk' = w.disk
                 /\ origin' = w.origin
                 /\ bpc' = IF w.ok THEN "pass2" ELSE "raised"
                 /\ row' = IF w.ok THEN row + 1 ELSE row
            /\ UNCHANGED dupes
    /\ UNCHANGED <<searchVars, serviceVars, src, max_jobs, count, embed_dim, total, prior, run>>

\* lines 220-233: flush, then pickle the Job list.
Pass2Finish ==
    /\ bpc = "pass2" /\ (pos = Len(src) \/ Capped(max_jobs, row))
    /\ disk' = [disk EXCEPT !.jobs = Some(jobs)]
    /\ bpc' = "done"
    /\ UNCHANGED <<searchVars, serviceVars, src, max_jobs, pos, seen, count, embed_dim, total,
                   row, jobs, dupes, origin, prior, run>>

\* The process is killed after the .npy files were created and before
\* jobs.pkl is written.
Crash ==
    /\ bpc = "pass2"
    /\ bpc' = "crashed"
    /\ UNCHANGED <<searchVars, serviceVars, src, max_jobs, pos, seen, count, embed_dim, total,
                   row, jobs, dupes, disk, origin, prior, run>>

\* build_index is run once more on the same source file with the same cap,
\* over the artifacts the first run left.
Rebuild ==
    /\ bpc = "done" /\ run = 1
    /\ run' = 2 /\ prior' = disk
    /\ bpc' = "pass1"
    /\ pos' = 0 /\ seen' = {} /\ count' = 0 /\ embed_dim' = 0 /\ total' = 0
    /\ row' = 0 /\ jobs' = <<>> /\ dupes' = 0
    /\ origin' = NoOrigin
    /\ UNCHANGED <<searchVars, serviceVars, src, max_jobs, disk>>

NextBuild ==
    \/ Pass1Line \/ Pass1Return \/ Allocate \/ Pass2Line \/ Pass2Finish
    \/ Crash \/ Rebuild

SpecBuild == InitBuild /\ [][NextBuild]_vars

(***************************************************************************)
(* The serving layer: api/routes.py (the per-IP rate limiter and the       *)
(* POST /api/search handler), api/session_store.py, src/intent_parser.py   *)
(* and src/embeddings.py.  Time is time.time() in whole seconds.  A text   *)
(* is the tuple of its whitespace-separated words: "" and every blank      *)
(* string are the empty tuple, and strip() changes nothing the tuple       *)
(* keeps.  A session id is a plain string.                                 *)
(***************************************************************************)
_RATE_LIMIT == 30
_RATE_WINDOW == 60
SESSION_TTL_SECONDS == 30 * 60
_CACHE_MAX_SIZE == 256
retries == 3             \* default of _call_api's parameter
DIMENSIONS == 2          \* 1536 in the source; the width of the model's index
DefaultBm25Weight == 4   \* the default 0.4 of search's bm25_weight, in tenths
HandlerTopK == 10        \* top_k=10 in the handler's call of search

\* dict helpers: d[key] = v, and removal of a set of keys
Put(d, key, v) == [k \in (DOMAIN d) \cup {key} |-> IF k = key THEN v ELSE d[k]]
Drop(d, keys) == [k \in (DOMAIN d) \ keys |-> d[k]]

\* --- api/routes.py: _check_rate_limit ------------------------------------
\* line 36: the timestamps younger than the window
Prune(timestamps, t) == SelectSeq(timestamps, LAMBDA x : t - x < _RATE_WINDOW)

\* Mutant of RateLimited: the comparison is > instead of >=.
RateLimitedOffByOne(timestamps) == Len(timestamps) > _RATE_LIMIT

\* line 37
RateLimited(timestamps) == Len(timestamps) >= _RATE_LIMIT

\* lines 32-39, run without interruption: the log afterwards, and whether
\* HTTPException(429) was raised
_check_rate_limit(log, client_ip, t) ==
    LET kept == Prune(log[client_ip], t)
    IN  IF RateLimited(kept)
        THEN [log |-> [log EXCEPT ![client_ip] = kept], raised |-> TRUE]
        ELSE [log |-> [log EXCEPT ![client_ip] = Append(kept, t)], raised |-> FALSE]

\* --- api/session_store.py ------------------------------------------------
\* Session(id=new_id): empty history, last_accessed = time.time()
Session(id, t) == [id |-> id, history |-> <<>>, last_accessed |-> t]

\* Mutant of Expired: a session expires already at the TTL.
ExpiredAtTTL(s, t) == t - s.last_accessed >= SESSION_TTL_SECONDS

\* line 41
Expired(s, t) == t - s.last_accessed > SESSION_TTL_SECONDS

\* lines 37-44
_cleanup_expired(sessions, t) ==
    Drop(sessions, {sid \in DOMAIN sessions : Expired(sessions[sid], t)})

\* str(uuid.uuid4()): the n-th id generated; ids never repeat
UuidPool == <<"u1", "u2", "u3">>

\* lines 21-32: the store afterwards, the session returned, and the number
\* of uuids generated so far
get_or_create(sessions, session_id, t, n) ==
    LET live == _cleanup_expired(sessions, t)
    IN  IF TruthyStr(session_id) /\ Val(session_id) \in DOMAIN live
        THEN LET s == [live[Val(session_id)] EXCEPT !.last_accessed = t]
             IN  [sessions |-> Put(live, s.id, s), session |-> s, issued |-> n]
        ELSE LET new_id == IF TruthyStr(session_id) THEN Val(session_id)
                           ELSE UuidPool[n + 1]
                 s == Session(new_id, t)
             IN  [sessions |-> Put(live, new_id, s), session |-> s,
                  issued |-> IF TruthyStr(session_id) THEN n ELSE n + 1]

\* lines 34-35
clear(sessions, session_id) == Drop(sessions, {session_id})

\* --- src/intent_parser.py ------------------------------------------------
\* A JSON member of the LLM's answer: key missing, null, or a number.
Missing == [kind |-> "missing"]
Null == [kind |-> "null"]
Num(n) == [kind |-> "num", n |-> n]

\* line 169: max(0.0, min(1.0, float(bm25_weight))), in tenths
Clamp01(n) == IF n < 0 THEN 0 ELSE IF n > OneW THEN OneW ELSE n

\* lines 155-165: the weights divided by their sum when it is positive
NormalizeWeights(w) ==
    LET sum == w.explicit + w.inferred + w.company
    IN  IF sum > 0
        THEN [explicit |-> (w.explicit * 100) \div sum,
              inferred |-> (w.inferred * 100) \div sum,
              company  |-> (w.company * 100) \div sum]
        ELSE w

\* float(None) at line 169 raises TypeError for "bm25_weight": null
ParseRaises(data) == data.bm25_weight = Null

\* lines 141-177
_parse_response(data, original_query) ==
    [semantic_query |-> IF TruthySeq(data.semantic_query) THEN data.semantic_query
                        ELSE original_query,
     filters |-> IF data.filters = None THEN EmptyFilters ELSE Val(data.filters),
     weights |-> NormalizeWeights(IF data.embedding_weights = None THEN DefaultWeights
                                  ELSE Val(data.embedding_weights)),
     exclusions |-> data.exclusions,
     bm25_weight |-> Clamp01(IF data.bm25_weight = Missing THEN DefaultBm25Weight
                             ELSE data.bm25_weight.n)]

\* lines 88-138: None when the service is unavailable, its answer is not
\* JSON, or _parse_response raises
parse_intent_llm(query, llm) ==
    IF llm = None \/ ParseRaises(Val(llm)) THEN None
    ELSE Some(_parse_response(Val(llm), query))

\* lines 206-260 on the model's vocabulary: "remote" sets the remote filter
\* and is stripped, "jobs" is stripped as a residual word
parse_intent_fallback(query) ==
    LET clean == SelectSeq(query, LAMBDA w : w \notin {"remote", "jobs"})
    IN  [semantic_query |-> IF TruthySeq(clean) THEN clean ELSE query,
         filters |-> IF \E k \in DOMAIN query : query[k] = "remote"
                     THEN RemoteOnly ELSE EmptyFilters,
         weights |-> DefaultWeights,
         exclusions |-> <<>>,
         bm25_weight |-> DefaultBm25Weight]

\* lines 263-270
parse_intent(query, llm) ==
    LET result == parse_intent_llm(query, llm)
    IN  IF result /= None THEN Val(result) ELSE parse_intent_fallback(query)

\* --- src/embeddings.py ---------------------------------------------------
\* lines 60-65: the vector divided by its norm when that is positive, in
\* thousandths
Normalize(vec) ==
    LET norm == ISqrt(SumOver([k \in DOMAIN vec |-> vec[k] * vec[k]], DOMAIN vec))
    IN  IF norm > 0 THEN [k \in DOMAIN vec |-> (vec[k] * 1000) \div norm] ELSE vec

\* Mutant of Backoff: the wait after failed attempt k (counted from 0) is
\* 2^k, i.e. 1 then 2 seconds.
BackoffFromOne(attempt) == 2 ^ attempt

\* line 69
Backoff(attempt) == 2 ^ (attempt + 1)

RECURSIVE CallApiFrom(_, _, _)
\* lines 47-73 from iteration "attempt" on.  api[k] is what the k-th call of
\* embeddings.create does: None for an exception, else the raw vector.
CallApiFrom(api, attempt, slept) ==
    IF api[attempt + 1] /= None
    THEN [raised |-> FALSE, vec |-> Normalize(Val(api[attempt + 1])),
          attempts |-> attempt + 1, slept |-> slept]
    ELSE IF attempt < retries - 1
         THEN CallApiFrom(api, attempt + 1, Append(slept, Backoff(attempt)))
         ELSE [raised |-> TRUE, vec |-> <<>>,
               attempts |-> attempt + 1, slept |-> slept]

_call_api(api) == CallApiFrom(api, 0, <<>>)

InCache(cache, text) == \E k \in DOMAIN cache : cache[k].text = text

\* OrderedDict.move_to_end(text)
MoveToEnd(cache, text) ==
    SelectSeq(cache, LAMBDA e : e.text /= text)
        \o SelectSeq(cache, LAMBDA e : e.text = text)

\* lines 41-43: insert at the end, drop the oldest entry above the maximum
CachePut(cache, text, vec) ==
    LET grown == Append(cache, [text |-> text, vec |-> vec])
    IN  IF Len(grown) > _CACHE_MAX_SIZE THEN Tail(grown) ELSE grown

\* lines 30-44: the cache afterwards and the trace of the call (api: what
\* the embedding service did or would have done on each attempt)
embed(cache, text, api) ==
    IF ~TruthySeq(text)
    THEN [cache |-> cache, text |-> text, api |-> api, raised |-> FALSE,
          vec |-> [k \in 1..DIMENSIONS |-> 0], attempts |-> 0, slept |-> <<>>]
    ELSE IF InCache(cache, text)
    THEN [cache |-> MoveToEnd(cache, text), text |-> text, api |-> api,
          raised |-> FALSE,
          vec |-> (CHOOSE e \in Range(cache) : e.text = text).vec,
          attempts |-> 0, slept |-> <<>>]
    ELSE LET c == _call_api(api)
         IN  [cache |-> IF c.raised THEN cache ELSE CachePut(cache, text, c.vec),
              text |-> text, api |-> api, raised |-> c.raised, vec |-> c.vec,
              attempts |-> c.attempts, slept |-> c.slept]

RECURSIVE EmbedAll(_, _, _, _, _)
\* embed applied to the texts in turn (routes.py lines 62-65) until one
\* raises: the cache, the vectors so far, the seconds slept and the trace of
\* the last call
EmbedAll(cache, texts, api, vecs, seconds) ==
    IF texts = <<>>
    THEN [cache |-> cache, raised |-> FALSE, vecs |-> vecs, seconds |-> seconds,
          last |-> <<>>]
    ELSE LET e == embed(cache, Head(texts), api)
             sofar == seconds + SumOver(e.slept, DOMAIN e.slept)
         IN  IF e.raised \/ Len(texts) = 1
             THEN [cache |-> e.cache, raised |-> e.raised,
                   vecs |-> IF e.raised THEN vecs ELSE Append(vecs, e.vec),
                   seconds |-> sofar, last |-> e]
             ELSE EmbedAll(e.cache, Tail(texts), api, Append(vecs, e.vec), sofar)

\* --- api/routes.py: the handlers -----------------------------------------
\* The part of one call of search that touches the engine's state.
SearchStep(r) ==
    /\ req' = r
    /\ out' = SearchCall(ds, r)
    /\ called' = TRUE
    /\ failed' = (failed \/ SearchRaises(ds, r))
    /\ UNCHANGED <<ds, sortTies, loaded>>

\* What the handler leaves behind: the outcome sent to the client and the
\* handler's local "session".
Response(status, error, client_ip, session_id, query, session) ==
    [call |-> "search", status |-> status, error |-> error,
     client_ip |-> client_ip, session_id |-> session_id, query |-> query,
     session |-> session]

\* POST /api/search (lines 42-147).  llm is what the intent service answers
\* (None: unavailable), api what each call of the embedding service does.
\* The handler does not pass bm25_weight to engine.search (lines 69-76), so
\* the parameter takes its default.  SearchFilters has no attribute
\* max_salary, so line 116 raises AttributeError once search has returned.
ApiSearch(client_ip, session_id, query, llm, api) ==
    LET limit == _check_rate_limit(_request_log, client_ip, now)
        got == get_or_create(_sessions, session_id, now, issued)
        session == [got.session EXCEPT !.history = Append(@, query)]
        parsed == parse_intent(query, llm)
        emb == EmbedAll(_cache, <<parsed.semantic_query>> \o parsed.exclusions,
                        api, <<>>, 0)
    IN  /\ TruthyStr(session_id) \/ issued < Len(UuidPool)
        /\ _request_log' = limit.log
        /\ IF limit.raised
           THEN /\ resp' = Response(429, "HTTPException", client_ip, session_id,
                                    query, None)
                /\ UNCHANGED <<now, admitted, _sessions, issued, _cache, intent,
                               ecall, searchVars>>
           ELSE /\ admitted' = [admitted EXCEPT ![client_ip] = Append(@, now)]
                /\ _sessions' = Put(got.sessions, session.id, session)
                /\ issued' = got.issued
                /\ intent' = parsed
                /\ _cache' = emb.cache
                /\ ecall' = emb.last
                /\ now' = now + emb.seconds
                /\ IF emb.raised
                   THEN /\ resp' = Response(500, "APIError", client_ip, session_id,
                                            query, Some(session.id))
                        /\ UNCHANGED searchVars
                   ELSE /\ SearchStep(Request(
                              emb.vecs[1], Some(parsed.filters), Some(parsed.weights),
                              HandlerTopK,
                              IF TruthySeq(parsed.exclusions)
                              THEN Some(Tail(emb.vecs)) ELSE None,
                              Some(parsed.semantic_query), DefaultBm25Weight))
                        /\ resp' = Response(500,
                              IF SearchRaises(ds, req') THEN "ValueError"
                              ELSE "AttributeError",
                              client_ip, session_id, query, Some(session.id))
        /\ UNCHANGED <<threads, buildVars>>

\* POST /api/session/clear (lines 150-153)
ApiClearSession(session_id) ==
    /\ _sessions' = clear(_sessions, session_id)
    /\ resp' = [call |-> "clear", status |-> 200, session_id |-> session_id]
    /\ UNCHANGED <<now, _request_log, admitted, issued, _cache, intent, ecall,
                   threads, searchVars, buildVars>>

\* dt seconds pass.
Tick(dt) ==
    /\ now' = now + dt
    /\ UNCHANGED <<_request_log, admitted, _sessions, issued, _cache, intent,
                   resp, ecall, threads, searchVars, buildVars>>

\* The engine the serving layer was started with: a dataset of two jobs.
ServedRows ==
    {Row(ScoringJob("remote", None, <<"Python">>),
         <<1000, 0>>, <<0, 0>>, <<0, 0>>, {"python"}),
     Row(ScoringJob("onsite", None, <<>>),
         <<600, 800>>, <<0, 0>>, <<0, 0>>, {"sql"})}

EngineLoaded ==
    /\ BuildOff
    /\ ds \in {Dataset(<<a, b>>) : a \in ServedRows, b \in ServedRows}
    /\ sortTies \in {"asc", "desc"}
    /\ called = FALSE /\ req = NoCall /\ out = NoCall
    /\ loaded = ds /\ failed = FALSE

ClientIPs == {"10.0.0.1", "10.0.0.2"}

\* The module state of the serving layer right after start-up.
ServiceStarted ==
    /\ now = 0
    /\ _request_log = [ip \in ClientIPs |-> <<>>]
    /\ admitted = [ip \in ClientIPs |-> <<>>]
    /\ _sessions = <<>> /\ issued = 0 /\ _cache = <<>>
    /\ intent = NoCall /\ resp = NoCall /\ ecall = NoCall /\ threads = <<>>

(***************************************************************************)
(* The request runs: the first request after start-up, over the answers of *)
(* the intent service and the behaviours of the embedding service.         *)
(***************************************************************************)
LlmWeights == {Missing, Null, Num(-5), Num(0), Num(4), Num(7), Num(10), Num(25)}

LlmAnswers ==
    {None} \cup
    {Some([semantic_query |-> sq, filters |-> f, embedding_weights |-> w,
           exclusions |-> ex, bm25_weight |-> b]) :
        sq \in {<<>>, <<"Python">>},
        f \in {None, Some(RemoteOnly)},
        w \in {None, Some([explicit |-> 60, inferred |-> 30, company |-> 10])},
        ex \in {<<>>, << <<"sql">> >>},
        b \in LlmWeights}

\* what the three possible calls of embeddings.create do
ApiBehaviours ==
    {<<Some(<<5, 0>>), Some(<<5, 0>>), Some(<<5, 0>>)>>,
     <<None, Some(<<3, 4>>), Some(<<5, 0>>)>>,
     <<None, None, Some(<<0, 5>>)>>,
     <<None, None, None>>}

InitRequest == EngineLoaded /\ ServiceStarted

FirstRequest ==
    /\ resp = NoCall
    /\ \E query \in {<<"python">>, <<"remote", "python", "jobs">>},
          llm \in LlmAnswers, api \in ApiBehaviours :
        ApiSearch("10.0.0.1", None, query, llm, api)

NextRequest == FirstRequest

SpecRequest == InitRequest /\ [][NextRequest]_vars

(***************************************************************************)
(* The rate-limit runs.  A run is followed from the moment one client has  *)
(* had a burst of requests served (k at time 0 and m half a window later,  *)
(* all in session "s1", which was then cleared); from there both clients   *)
(* send requests and time advances in steps of half a window.              *)
(***************************************************************************)
HalfWindow == _RATE_WINDOW \div 2
RateHorizon == 3 * _RATE_WINDOW
MaxTurns == 4            \* requests followed in one session

BurstQuery == <<"python">>
ApiUp == <<Some(<<5, 0>>), Some(<<5, 0>>), Some(<<5, 0>>)>>

\* the timestamps a burst leaves in the log
Burst(k, m) == [i \in 1..(k + m) |-> IF i <= k THEN 0 ELSE HalfWindow]

\* (k, m): no burst, and bursts that leave 28, 29 or 30 timestamps
BurstSizes == {<<0, 0>>, <<28, 0>>, <<14, 14>>, <<0, 29>>, <<1, 29>>, <<15, 15>>}

\* The state after the burst (k + m >= 2): every request was parsed by the
\* fallback parser, embedded (the first through the embedding service, the
\* others from the cache) and searched; clear_session was called last.
AfterBurst(k, m) ==
    LET parsed == parse_intent(BurstQuery, None)
        first == embed(<<>>, parsed.semantic_query, ApiUp)
        again == embed(first.cache, parsed.semantic_query, ApiUp)
        r == Request(again.vec, Some(parsed.filters), Some(parsed.weights),
                     HandlerTopK, None, Some(parsed.semantic_query),
                     DefaultBm25Weight)
    IN  /\ _request_log = [ip \in ClientIPs |->
                             IF ip = "10.0.0.1" THEN Burst(k, m) ELSE <<>>]
        /\ admitted = _request_log
        /\ _sessions = <<>> /\ issued = 0
        /\ _cache = again.cache
        /\ intent = parsed
        /\ ecall = again
        /\ resp = [call |-> "clear", status |-> 200, session_id |-> "s1"]
        /\ called = TRUE /\ req = r /\ out = SearchCall(ds, r)
        /\ failed = FALSE

InitRate ==
    /\ BuildOff
    /\ ds = Dataset(<<CHOOSE a \in ServedRows : a.explicit = <<1000, 0>>,
                      CHOOSE b \in ServedRows : b.explicit = <<600, 800>>>>)
    /\ sortTies = "asc"
    /\ loaded = ds
    /\ threads = <<>>
    /\ now = HalfWindow
    /\ \E b \in BurstSizes :
          IF b = <<0, 0>>
          THEN /\ _request_log = [ip \in ClientIPs |-> <<>>]
               /\ admitted = _request_log
               /\ _sessions = <<>> /\ issued = 0 /\ _cache = <<>>
               /\ intent = NoCall /\ resp = NoCall /\ ecall = NoCall
               /\ called = FALSE /\ req = NoCall /\ out = NoCall
               /\ failed = FALSE
          ELSE AfterBurst(b[1], b[2])

\* A client sends the query in session "s1".
RateRequest ==
    /\ "s1" \in DOMAIN _sessions => Len(_sessions["s1"].history) < MaxTurns
    /\ \E ip \in ClientIPs : ApiSearch(ip, Some("s1"), BurstQuery, None, ApiUp)

RateTick ==
    /\ now + HalfWindow <= RateHorizon
    /\ Tick(HalfWindow)

NextRate == RateRequest \/ RateTick

SpecRate == InitRate /\ [][NextRate]_vars

(***************************************************************************)
(* The concurrent runs.  The handler is a plain "def", which FastAPI runs  *)
(* in a thread pool: several requests of one client are inside             *)
(* _check_rate_limit at once, and a thread switch may come between any two *)
(* of its steps.  The local "timestamps" refers to the list object that    *)
(* was in the dict at line 34: while that object is still the dict's       *)
(* value, appends of other threads show through it (live); once another    *)
(* thread has stored a new list at line 36 the object no longer changes    *)
(* (items holds its content).  The rest of the handler does not touch the  *)
(* request log and is not followed.                                        *)
(***************************************************************************)
MaxThreads == 2
Threads == 1..MaxThreads
RaceClient == "10.0.0.1"

\* a thread that has not entered _check_rate_limit
Idle == [pc |-> "idle", now |-> 0, live |-> FALSE, items |-> <<>>, kept |-> <<>>]

InitRace ==
    /\ BuildOff
    /\ ds = Dataset(<<CHOOSE a \in ServedRows : a.explicit = <<1000, 0>>,
                      CHOOSE b \in ServedRows : b.explicit = <<600, 800>>>>)
    /\ sortTies = "asc"
    /\ loaded = ds
    /\ now = 0
    /\ threads = [t \in Threads |-> Idle]
    /\ \E b \in {<<0, 0>>, <<28, 0>>, <<29, 0>>} :
          IF b = <<0, 0>>
          THEN /\ _request_log = [ip \in ClientIPs |-> <<>>]
               /\ admitted = _request_log
               /\ _sessions = <<>> /\ issued = 0 /\ _cache = <<>>
               /\ intent = NoCall /\ resp = NoCall /\ ecall = NoCall
               /\ called = FALSE /\ req = NoCall /\ out = NoCall
               /\ failed = FALSE
          ELSE AfterBurst(b[1], b[2])

RaceFrame ==
    UNCHANGED <<now, _sessions, issued, _cache, intent, resp, ecall,
                searchVars, buildVars>>

\* lines 33-34: now = time.time(); timestamps = _request_log[client_ip]
ReadLog(t) ==
    /\ threads[t].pc = "idle"
    /\ threads' = [threads EXCEPT ![t] =
                     [pc |-> "filter", now |-> now, live |-> TRUE,
                      items |-> <<>>, kept |-> <<>>]]
    /\ UNCHANGED <<_request_log, admitted>>
    /\ RaceFrame

\* line 36, right-hand side: [t for t in timestamps if now - t < _RATE_WINDOW]
FilterLog(t) ==
    /\ threads[t].pc = "filter"
    /\ threads' = [threads EXCEPT ![t] =
                     [@ EXCEPT !.pc = "store", !.live = FALSE, !.items = <<>>,
                               !.kept = Prune(IF threads[t].live
                                              THEN _request_log[RaceClient]
                                              ELSE threads[t].items,
                                              threads[t].now)]]
    /\ UNCHANGED <<_request_log, admitted>>
    /\ RaceFrame

\* line 36, the assignment: _request_log[client_ip] = <the new list>
StoreLog(t) ==
    /\ threads[t].pc = "store"
    /\ _request_log' = [_request_log EXCEPT ![RaceClient] = threads[t].kept]
    /\ threads' = [u \in Threads |->
                     IF u = t THEN [threads[t] EXCEPT !.pc = "check"]
                     ELSE IF threads[u].live
                          THEN [threads[u] EXCEPT !.live = FALSE,
                                                  !.items = _request_log[RaceClient]]
                          ELSE threads[u]]
    /\ UNCHANGED admitted
    /\ RaceFrame

\* lines 37-38: if len(_request_log[client_ip]) >= _RATE_LIMIT: raise
CheckLen(t) ==
    /\ threads[t].pc = "check"
    /\ threads' = [threads EXCEPT ![t].pc =
                     IF RateLimited(_request_log[RaceClient])
                     THEN "rejected" ELSE "append"]
    /\ UNCHANGED <<_request_log, admitted>>
    /\ RaceFrame

\* line 39: _request_log[client_ip].append(now)
AppendNow(t) ==
    /\ threads[t].pc = "append"
    /\ _request_log' = [_request_log EXCEPT ![RaceClient] = Append(@, threads[t].now)]
    /\ admitted' = [admitted EXCEPT ![RaceClient] = Append(@, threads[t].now)]
    /\ threads' = [threads EXCEPT ![t].pc = "admitted"]
    /\ RaceFrame

RaceTick ==
    /\ now + HalfWindow <= _RATE_WINDOW
    /\ now' = now + HalfWindow
    /\ UNCHANGED <<_request_log, admitted, threads, _sessions, issued, _cache,
                   intent, resp, ecall, searchVars, buildVars>>

NextRace ==
    \/ \E t \in Threads : ReadLog(t)
    \/ \E t \in Threads : FilterLog(t)
    \/ \E t \in Threads : StoreLog(t)
    \/ \E t \in Threads : CheckLen(t)
    \/ \E t \in Threads : AppendNow(t)
    \/ RaceTick

SpecRace == InitRace /\ [][NextRace]_vars

(***************************************************************************)
(* The session runs: one client sends requests with no session id, an      *)
(* empty one, a name of its own or a uuid the service may have issued,     *)
(* clears its named session, and lets time pass in thirds of the TTL, so   *)
(* that a session is seen both exactly SESSION_TTL_SECONDS after its last  *)
(* access and a third later.                                               *)
(***************************************************************************)
SessionStep == SESSION_TTL_SECONDS \div 3
SessionHorizon == SESSION_TTL_SECONDS + 2 * SessionStep
SessionClient == "10.0.0.1"
\* a client learns a uuid only from a response, so it sends one only after
\* the service has issued it
SessionIds(n) == {None, Some(""), Some("s1")} \cup {Some(UuidPool[k]) : k \in 1..n}

InitSession ==
    /\ BuildOff
    /\ ds = Dataset(<<CHOOSE a \in ServedRows : a.explicit = <<1000, 0>>,
                      CHOOSE b \in ServedRows : b.explicit = <<600, 800>>>>)
    /\ sortTies = "asc"
    /\ called = FALSE /\ req = NoCall /\ out = NoCall
    /\ loaded = ds /\ failed = FALSE
    /\ ServiceStarted

SessionRequest ==
    /\ Len(admitted[SessionClient]) < MaxTurns
    /\ \E sid \in SessionIds(issued) :
          ApiSearch(SessionClient, sid, BurstQuery, None, ApiUp)

SessionClear == ApiClearSession("s1")

SessionTick ==
    /\ now + SessionStep <= SessionHorizon
    /\ Tick(SessionStep)

NextSession == SessionRequest \/ SessionClear \/ SessionTick

SpecSession == InitSession /\ [][NextSession]_vars

(***************************************************************************)
(* The embedding runs: embed is called with an empty text and two other    *)
(* texts while the embedding service answers at once, after one or two     *)
(* failures, or not at all; time.sleep advances the clock.                 *)
(***************************************************************************)
EmbedTexts == {<<>>, <<"python">>, <<"remote", "jobs">>}
EmbedHorizon == 2 * SumOver([k \in 1..(retries - 1) |-> Backoff(k - 1)], 1..(retries - 1))

InitEmbed ==
    /\ BuildOff
    /\ ds = Dataset(<<CHOOSE a \in ServedRows : a.explicit = <<1000, 0>>,
                      CHOOSE b \in ServedRows : b.explicit = <<600, 800>>>>)
    /\ sortTies = "asc"
    /\ called = FALSE /\ req = NoCall /\ out = NoCall
    /\ loaded = ds /\ failed = FALSE
    /\ ServiceStarted

\* client.embed(text)
EmbedCall ==
    /\ now <= EmbedHorizon
    /\ \E text \in EmbedTexts, api \in ApiBehaviours :
          LET e == embed(_cache, text, api)
          IN  /\ _cache' = e.cache
              /\ ecall' = e
              /\ now' = now + SumOver(e.slept, DOMAIN e.slept)
    /\ UNCHANGED <<_request_log, admitted, _sessions, issued, intent, resp,
                   threads, searchVars, buildVars>>

NextEmbed == EmbedCall

SpecEmbed == InitEmbed /\ [][NextEmbed]_vars

(***************************************************************************)
(* Properties of SearchEngine.search, checked under SpecSearch.            *)
(***************************************************************************)
Rows == DOMAIN out.mask
Returned == {out.results[p].row : p \in DOMAIN out.results}

\* C2: with filters given, no job for which _job_passes_filters is false is
\* among the returned results.
C2_NoFilteredJobReturned ==
    (called /\ req.filters /= None) =>
        \A p \in DOMAIN out.results :
            _job_passes_filters(out.results[p].job, Val(req.filters))

\* C2 witness: a job that would rank first on both signals fails the filter
\* and the result list is cut short of top_k because of it.
C2_Witness ==
    /\ called /\ req.filters /= None
    /\ \E i \in Rows : /\ ~_job_passes_filters(ds.jobs[i], Val(req.filters))
                       /\ ds.explicit[i] = <<1000, 0>>
    /\ Len(out.results) > 0
    /\ Len(out.results) < req.top_k

\* C5: the results are in non-increasing fused-score order and every
\* returned job scores at least as high as every filter-passing job that is
\* not returned.
C5_TopKHighest ==
    called =>
        /\ \A p, q \in DOMAIN out.results :
              p < q => ScoreLe(out.results[q].score, out.results[p].score)
        /\ \A p \in DOMAIN out.results :
              \A i \in Rows \ Returned :
                  out.mask[i] => ScoreLe(out.fused_scores[i], out.results[p].score)

\* C5 witness: the argpartition path (top_k < N) leaves out a passing job
\* with a strictly lower fused score than the last returned one.
C5_Witness ==
    /\ called
    /\ req.top_k < Len(ds.jobs) /\ Len(out.results) = req.top_k /\ req.top_k >= 2
    /\ \E i \in Rows \ Returned :
          /\ out.mask[i]
          /\ ScoreLt(out.fused_scores[i], out.results[req.top_k].score)

\* C6: the number of results is min(top_k, matched_filters), ranks are
\* 1..len(results) in list order, and a call in which no job passes, or on
\* an empty corpus, returns an empty list.
C6_ResultCount ==
    called =>
        /\ Len(out.results) = Min2(req.top_k, out.meta.matched_filters)
        /\ \A p \in DOMAIN out.results : out.results[p].rank = p
        /\ out.meta.matched_filters = Cardinality({i \in Rows : out.mask[i]})
        /\ out.meta.total_jobs = Len(ds.jobs)
        /\ (out.meta.matched_filters = 0 \/ Len(ds.jobs) = 0) => out.results = <<>>

\* C6 witness: a non-empty corpus in which no job passes, asked for top_k > 0.
C6_Witness ==
    /\ called
    /\ Len(ds.jobs) > 0 /\ req.top_k > 0 /\ req.top_k < Len(ds.jobs)
    /\ out.meta.matched_filters = 0
    /\ out.results = <<>>

\* A dominates B on both ranks.
Dominates(a, b) ==
    /\ out.mask[a] /\ out.mask[b]
    /\ out.semantic_ranks[a] <= out.semantic_ranks[b]
    /\ out.bm25_ranks[a] <= out.bm25_ranks[b]

\* C7 as stated: for every bm25_weight search accepts, a job that dominates
\* another on both ranks has a fused score at least as high.
C7_MonotoneAnyWeight ==
    called =>
        \A a, b \in Rows :
            Dominates(a, b) => ScoreLe(out.fused_scores[b], out.fused_scores[a])

\* C7 amended: the same, for bm25_weight within [0, 1].
C7_MonotoneUnitWeight ==
    (called /\ req.bm25_weight >= 0 /\ req.bm25_weight <= OneW) =>
        \A a, b \in Rows :
            Dominates(a, b) => ScoreLe(out.fused_scores[b], out.fused_scores[a])

\* C7 witness: weight 0.4, one job strictly ahead on the dense rank and
\* level or ahead on the lexical rank, with a strictly higher fused score.
C7_Witness ==
    /\ called /\ req.bm25_weight = 4
    /\ \E a, b \in Rows :
          /\ a /= b /\ Dominates(a, b)
          /\ out.semantic_ranks[a] + 1 < out.semantic_ranks[b]
          /\ ScoreLt(out.fused_scores[b], out.fused_scores[a])

\* 1-based positions a row may take in the descending order of scores
DescPositions(scores, i) ==
    {p \in 1..Len(scores) :
        /\ p > Cardinality({j \in 1..Len(scores) : ScoreLt(scores[i], scores[j])})
        /\ p <= Cardinality({j \in 1..Len(scores) : ~ScoreLt(scores[j], scores[i])})}

\* C8: the score of every returned job is
\* (1 - w)/(60 + dense_rank) + w/(60 + lexical_rank), the ranks being the
\* job's 1-based positions in the descending orders of the two score arrays
\* (w is in tenths: (10 - w)/(10 (60 + dr)) + w/(10 (60 + lr))).
C8_ScoreFormula ==
    called =>
        \A p \in DOMAIN out.results :
            LET i == out.results[p].row
                dr == out.semantic_ranks[i]
                lr == out.bm25_ranks[i]
                sc == out.results[p].score
            IN  /\ dr \in DescPositions(out.semantic_scores, i)
                /\ lr \in DescPositions(out.bm25_scores, i)
                /\ sc.fin
                /\ sc.num * (10 * (60 + dr) * (60 + lr))
                     = sc.den * ((10 - req.bm25_weight) * (60 + lr)
                                 + req.bm25_weight * (60 + dr))

\* C8 witness: a returned job whose two ranks differ, under a weight that
\* is neither 0 nor 1.
C8_Witness ==
    /\ called /\ req.bm25_weight = 4
    /\ \E p \in DOMAIN out.results :
          /\ out.semantic_ranks[out.results[p].row] = 3
          /\ out.bm25_ranks[out.results[p].row] = 1

\* C9: of two filter-passing jobs with equal fused scores the one with the
\* smaller row index comes first in the results, and at the top-k cut-off
\* it is the one kept.
C9_TieBreakByRowIndex ==
    called =>
        /\ \A p, q \in DOMAIN out.results :
              (p < q /\ ScoreEq(out.results[p].score, out.results[q].score))
                  => out.results[p].row < out.results[q].row
        /\ \A p \in DOMAIN out.results :
              \A i \in Rows \ Returned :
                  (out.mask[i] /\ ScoreEq(out.fused_scores[i], out.results[p].score))
                      => out.results[p].row < i

C3_FilterNullSafety ==
    (called /\ req.filters /= None) =>
        \A i \in Rows :
            LET j == ds.jobs[i]
                f == Val(req.filters)
                same(g) == _job_passes_filters(j, g) = out.mask[i]
            IN  /\ j.remote_type = None =>
                    \A v \in RemoteTypeValues : same([f EXCEPT !.remote_type = v])
                /\ j.seniority_level = None =>
                    \A v \in SeniorityValues : same([f EXCEPT !.seniority_level = v])
                /\ j.employment_type = None =>
                    \A v \in EmploymentValues : same([f EXCEPT !.employment_type = v])
                /\ j.company_type = None =>
                    \A v \in CompanyTypeValues : same([f EXCEPT !.company_type = v])
                /\ j.salary_max = None =>
                    \A v \in MinSalaryValues : same([f EXCEPT !.min_salary = v])
                /\ j.industries = <<>> =>
                    \A v \in IndustriesValues : same([f EXCEPT !.industries = v])

\* C3 witness: a job with no remote_type and no salary_max passes a filter
\* that sets both, while its present seniority decides the outcome.
C3_Witness ==
    /\ called /\ req.filters /= None
    /\ ds.jobs[1].remote_type = None /\ ds.jobs[1].salary_max = None
    /\ Val(req.filters).remote_type = Some("onsite")
    /\ Val(req.filters).min_salary = Some(100000)
    /\ Val(req.filters).seniority_level = Some("senior level")
    /\ ds.jobs[1].seniority_level = Some("senior")
    /\ out.mask[1]

\* A set filter field whose job-side field is present and conflicting.
Conflict(j, f) ==
    \/ /\ f.remote_type \notin {None, Some("")} /\ j.remote_type /= None
       /\ j.remote_type /= f.remote_type
    \/ /\ f.seniority_level \notin {None, Some("")} /\ j.seniority_level /= None
       /\ j.seniority_level /= f.seniority_level
       /\ Val(j.seniority_level) \notin _SENIORITY_ALIASES(Val(f.seniority_level))
    \/ /\ f.employment_type \notin {None, Some("")} /\ j.employment_type /= None
       /\ j.employment_type /= f.employment_type
    \/ /\ f.company_type \notin {None, Some("")} /\ j.company_type /= None
       /\ j.company_type /= f.company_type
    \/ /\ f.min_salary /= None /\ j.salary_max /= None
       /\ Val(j.salary_max) < Val(f.min_salary)
    \/ /\ f.industries /= <<>> /\ j.industries /= <<>>
       /\ \A a \in DOMAIN j.industries : \A b \in DOMAIN f.industries :
             j.industries[a] /= f.industries[b]

\* C4: a job is masked out only if some set filter field meets a present,
\* conflicting job field; with filters omitted or every field unset every
\* job passes and meta.matched_filters is the corpus size.
C4_ExcludedOnlyOnConflict ==
    called =>
        /\ \A i \in Rows :
              ~out.mask[i] => (req.filters /= None /\ Conflict(ds.jobs[i], Val(req.filters)))
        /\ (req.filters = None \/ req.filters = Some(EmptyFilters)) =>
              /\ \A i \in Rows : out.mask[i]
              /\ out.meta.matched_filters = Len(ds.jobs)

\* C4 witness: every field of the job is present, every filter field unset,
\* and the job is counted as matched.
C4_Witness ==
    /\ called /\ req.filters = Some(EmptyFilters)
    /\ ds.jobs[1].remote_type /= None /\ ds.jobs[1].seniority_level /= None
    /\ ds.jobs[1].employment_type /= None /\ ds.jobs[1].company_type /= None
    /\ ds.jobs[1].salary_max /= None /\ ds.jobs[1].industries /= <<>>
    /\ out.meta.matched_filters = 1

\* C4 second case: a job masked out by an industries conflict alone.
C4_WitnessExcluded ==
    /\ called /\ req.filters /= None
    /\ ~out.mask[1]
    /\ Val(req.filters).industries = <<"health", "finance">>
    /\ Val(req.filters).remote_type = None /\ Val(req.filters).min_salary = None


(***************************************************************************)
(* Properties of build_index, checked under SpecBuild.                     *)
(***************************************************************************)
Spaces == {"explicit", "inferred", "company"}

\* C1: after a build that completes, the persisted job list and each of
\* the three matrices have N rows, N being pass 1's count and the number of
\* rows pass 2 wrote, and entry i of the job list and row i of every matrix
\* come from the same source record.
C1_Alignment ==
    bpc = "done" =>
        /\ Len(Val(disk.jobs)) = total
        /\ row = total
        /\ \A m \in Spaces : Len(Val(disk[m])) = total
        /\ \A i \in 1..total :
              LET k == origin.jobs[i] IN
                /\ k \in 1..Len(src) /\ src[k].kind = "rec"
                /\ \A m \in Spaces : origin[m][i] = k
                /\ Val(disk.jobs)[i] = _parse_job(src[k], k - 1)
                /\ \A m \in Spaces :
                      Some(Val(disk[m])[i])
                          = Stored(_norm(src[k][m], embed_dim), embed_dim, i - 1, total)

\* C1 witness: a completed build that skipped a duplicate, so that the
\* second row holds the record of the third line.
C1_Witness ==
    /\ bpc = "done" /\ dupes = 1 /\ total = 2
    /\ origin.jobs = <<1, 3>> /\ origin.company = <<1, 3>>
    /\ Val(disk.company)[2] = <<0, 1000>>

\* C11: a build that stops part-way through pass 2, by an exception or by
\* a crash, leaves the artifacts that were on disk before it as they were.
C11_PriorArtifactsKept ==
    (prior /= NoArtifacts /\ bpc \in {"raised", "crashed"}) => disk = prior

\* C12: build_index never raises, whatever lines the source file holds.
C12_NeverRaises == bpc /= "raised"

\* Row i of a matrix is the zero vector.
ZeroRow(m, i) == \A c \in DOMAIN Val(disk[m])[i] : Val(disk[m])[i][c] = 0

\* The raw vector of a record in space m is absent or the empty list.
AbsentOrEmpty(rec, m) == rec[m] = None \/ Val(rec[m]) = <<>>

\* C13: for every accepted record whose raw vectors are each absent, empty
\* or of length D, every space whose raw vector is absent or empty gets its
\* row written without an error, as the zero vector.
C13_ZeroRowForAbsentOrEmpty ==
    \A i \in DOMAIN origin.jobs :
        LET k == origin.jobs[i]
            rec == src[k]
        IN  (\A m \in Spaces : AbsentOrEmpty(rec, m) \/ Len(Val(rec[m])) = embed_dim)
                => \A m \in Spaces :
                      AbsentOrEmpty(rec, m)
                          => origin[m][i] = k /\ ZeroRow(m, i)

\* data_loader: np.any(matrix != 0, axis=1), for one row
HasVector(vec) == \E c \in DOMAIN vec : vec[c] /= 0

\* Euclidean norm 1 within tolerance: components are in thousandths, each
\* rounded down by less than one thousandth.
UnitNorm(vec) ==
    LET sq == SumOver([c \in DOMAIN vec |-> vec[c] * vec[c]], DOMAIN vec)
    IN  sq <= Million /\ sq >= Million - 2 * 1000 * Len(vec)

\* C14: in a finished index every row of each matrix is the zero vector,
\* with its presence flag false, or has norm 1, with its presence flag true.
C14_RowsZeroOrUnit ==
    bpc = "done" =>
        \A m \in Spaces : \A i \in 1..total :
            LET vec == Val(disk[m])[i]
            IN  \/ ~HasVector(vec) /\ ZeroRow(m, i)
                \/ HasVector(vec) /\ UnitNorm(vec)

\* C15: a second build of the same source file with the same cap, run over
\* the output of the first, ends with the same record count, the same job
\* list and the same three matrices.
C15_RebuildIdentical ==
    (bpc = "done" /\ run = 2) =>
        /\ disk = prior
        /\ total = Len(Val(prior.jobs))
        /\ \A m \in Spaces : Len(Val(disk[m])) = Len(Val(prior[m]))

\* C15 witness: the second build has finished on a source with a duplicate
\* record and two unique ones.
C15_Witness ==
    /\ bpc = "done" /\ run = 2 /\ total = 2 /\ dupes = 1
    /\ Len(Val(disk.jobs)) = 2

\* The dedup key as the claim states it, read off a stored Job: title and
\* company name lower-cased and trimmed, a missing one counted as "".
KeyOfJob(job) ==
    <<LowerStrip(Val(OrElse(job.title, Some("")))),
      LowerStrip(Val(OrElse(job.company_name, Some(""))))>>

\* The records of the source that precede line k and carry the key of line k.
EarlierSameKey(k) ==
    {h \in 1..(k - 1) :
        /\ src[h].kind = "rec"
        /\ KeyOfJob(_parse_job(src[h], h - 1)) = KeyOfJob(_parse_job(src[k], k - 1))}

\* C16: no two jobs of the job list, in memory during pass 2 and on disk
\* after it, have the same dedup key, and each job comes from the first
\* source record with its key.
C16_UniqueKeysFirstKept ==
    /\ \A i, j \in DOMAIN jobs :
          i /= j => KeyOfJob(jobs[i]) /= KeyOfJob(jobs[j])
    /\ \A i \in DOMAIN origin.jobs : EarlierSameKey(origin.jobs[i]) = {}
    /\ bpc = "done" =>
          /\ Val(disk.jobs) = jobs
          /\ total = Len(jobs)
          /\ \A i \in DOMAIN jobs : jobs[i] = _parse_job(src[origin.jobs[i]], origin.jobs[i] - 1)

\* C16 witness: a finished build whose source held "Dev"/"Acme" first and
\* " dev "/"ACME" second kept the first of the two.
C16_Witness ==
    /\ bpc = "done" /\ dupes >= 1
    /\ Len(src) >= 2
    /\ src[1].kind = "rec" /\ src[2].kind = "rec"
    /\ src[1].title = Some("Dev") /\ src[2].title = Some(" dev ")
    /\ Val(disk.jobs)[1].id = Some("a")
    /\ \A i \in DOMAIN Val(disk.jobs) : Val(disk.jobs)[i].id /= Some("b")

\* C17: once pass 1 has returned with N = 0 or D = 0, build_index has
\* returned without raising and DATA_DIR is as it was before the run.
C17_NoOpLeavesArtifacts ==
    (bpc \notin {"off", "pass1", "raised"} /\ (total = 0 \/ embed_dim = 0)) =>
        bpc = "noop" /\ disk = prior

\* C17 witness: earlier artifacts on disk, a source of three lines with one
\* unique record and no vector in any space (N = 1, D = 0), and the build
\* returned.
C17_Witness ==
    /\ bpc = "noop" /\ prior = PriorArtifacts
    /\ Len(src) = 3 /\ pos = 3
    /\ total = 1 /\ embed_dim = 0
    /\ disk = PriorArtifacts

(***************************************************************************)
(* Further properties of the filter policy, checked under SpecFilter.      *)
(***************************************************************************)
\* The filter bundle sets nothing but, possibly, its seniority.
OnlySeniority(f) == f = [EmptyFilters EXCEPT !.seniority_level = f.seniority_level]

\* C19: with a seniority filter value f set and a job seniority s present,
\* the job passes the seniority filter exactly when s = f or s is in the
\* alias set the table gives for f (empty for a value without an entry): a
\* job that does not match is masked out, and one that matches passes when
\* no other filter is set.
C19_SeniorityAliases ==
    (called /\ req.filters /= None /\ TruthyStr(Val(req.filters).seniority_level)) =>
        \A i \in Rows :
            ds.jobs[i].seniority_level /= None =>
                LET s == Val(ds.jobs[i].seniority_level)
                    f == Val(Val(req.filters).seniority_level)
                    match == s = f \/ s \in _SENIORITY_ALIASES(f)
                IN  /\ ~match => ~out.mask[i]
                    /\ (match /\ OnlySeniority(Val(req.filters))) => out.mask[i]

\* C19 witness: the filter value "senior" has no entry in the table, and a
\* job whose seniority is "senior level" is masked out by it alone.
C19_Witness ==
    /\ called /\ req.filters /= None
    /\ OnlySeniority(Val(req.filters))
    /\ Val(req.filters).seniority_level = Some("senior")
    /\ ds.jobs[1].seniority_level = Some("senior level")
    /\ ~out.mask[1]
    /\ out.results = <<>>

\* A second reachable case of C19: the filter value "senior level" lets a
\* job of seniority "senior" pass through its alias set.
C19_WitnessAlias ==
    /\ called /\ req.filters /= None
    /\ OnlySeniority(Val(req.filters))
    /\ Val(req.filters).seniority_level = Some("senior level")
    /\ ds.jobs[1].seniority_level = Some("senior")
    /\ out.mask[1]

(***************************************************************************)
(* Properties of the example runs, checked under SpecExample.              *)
(***************************************************************************)
\* C18: with min_salary set (and no other filter), a job is masked out
\* exactly when its salary_max is present and strictly below min_salary,
\* whatever its salary_min; a masked-out job is in no result, so a job with
\* salary_max 90000 never appears under min_salary=100000.
C18_SalaryFilter ==
    (called /\ req.filters /= None /\ Val(req.filters).min_salary /= None) =>
        \A i \in Rows :
            LET smax == ds.jobs[i].salary_max
                below == smax /= None /\ Val(smax) < Val(Val(req.filters).min_salary)
            IN  /\ out.mask[i] = ~below
                /\ below => i \notin Returned
                /\ smax = Some(90000) => i \notin Returned

\* C18 witness: the example: min_salary=100000, job 0 is the job most
\* similar to the query and has salary_max 90000 (and a salary_min), jobs 1
\* and 2 have salary_max 150000 with salary_min 50000; jobs 1 and 2 are
\* returned, job 0 is not.
C18_Witness ==
    /\ called /\ req.filters = Some(MinSalaryOnly) /\ req.top_k = 3
    /\ ds.explicit = <<<<1000, 0>>, <<0, 1000>>, <<707, 707>>>>
    /\ ds.jobs[1].salary_max = Some(90000) /\ ds.jobs[1].salary_min = Some(80000)
    /\ ds.jobs[2].salary_max = Some(150000) /\ ds.jobs[2].salary_min = Some(50000)
    /\ ds.jobs[3].salary_max = Some(150000)
    /\ Returned = {2, 3}
    /\ out.meta.matched_filters = 2

\* The example call: explicit rows [1,0], [0,1], [0.707,0.707], query
\* [1,0], weights explicit=1 / inferred=0 / company=0, no filters, top_k=2.
IsExampleCall ==
    /\ called
    /\ ds.explicit = <<<<1000, 0>>, <<0, 1000>>, <<707, 707>>>>
    /\ req.filters = None /\ req.weights = ExplicitOnly /\ req.top_k = 2
    /\ req.semantic_query = None

DimMismatch(d, r) ==
    \E i \in DOMAIN d.explicit : Len(d.explicit[i]) /= Len(r.query_embedding)

\* C21: a search whose query vector has another width than the index fails
\* with an error and returns no result list; the loaded dataset (job list and
\* the three matrices) is what it was, so a search with valid inputs, also
\* one made after a failed call, returns what it would have returned on the
\* dataset as loaded.
C21_MismatchFailsCleanly ==
    /\ ds = loaded
    /\ called =>
        /\ DimMismatch(loaded, req) => out = ValueError
        /\ ~SearchRaises(loaded, req) => out = SearchOut(loaded, req)

\* A search with valid inputs has returned results after an earlier call
\* failed on a query vector of the wrong width.
C21_Witness ==
    /\ called /\ failed
    /\ ~SearchRaises(ds, req)
    /\ Len(out.results) = 2

\* The last call returned normally and was given a list of exclusion vectors.
ExclusionCall ==
    called /\ ~SearchRaises(ds, req) /\ req.exclusion_embeddings /= None

\* The same request with another exclusion_embeddings argument.
WithExclusions(excl) == [req EXCEPT !.exclusion_embeddings = excl]

\* C22: exclusion vectors are a soft penalty, not a filter.  Against the same
\* call without exclusions, a list of exclusion vectors leaves the set of
\* jobs passing the filters, meta.matched_filters and the number of results
\* unchanged; a single vector lowers a job's dense score by
\* 0.3 * (explicit row . vector); a list lowers it by the sum of what its
\* vectors lower it by one at a time, and the reversed list gives the same
\* scores.
C22_ExclusionsSoftAdditive ==
    ExclusionCall =>
        LET list == Val(req.exclusion_embeddings)
            plain == SearchOut(ds, WithExclusions(None))
            single == [k \in DOMAIN list |->
                         SearchOut(ds, WithExclusions(Some(<<list[k]>>)))]
            reversed == SearchOut(ds, WithExclusions(Some(Reverse(list))))
        IN  /\ out.mask = plain.mask
            /\ out.meta = plain.meta
            /\ Len(out.results) = Len(plain.results)
            /\ reversed.semantic_scores = out.semantic_scores
            /\ \A i \in Rows : out.mask[i] =>
                /\ \A k \in DOMAIN list :
                      single[k].semantic_scores[i].num =
                          plain.semantic_scores[i].num
                          - ExclusionPenalty * Dot(ds.explicit[i], list[k])
                /\ out.semantic_scores[i].num =
                      plain.semantic_scores[i].num
                      - SumOver([k \in DOMAIN list |->
                                    plain.semantic_scores[i].num
                                    - single[k].semantic_scores[i].num],
                                DOMAIN list)

\* Two different exclusion vectors were given, each of which lowers the
\* dense score of a job that passes the filters and is returned.
C22_Witness ==
    /\ ExclusionCall
    /\ Len(Val(req.exclusion_embeddings)) = 2
    /\ Val(req.exclusion_embeddings)[1] /= Val(req.exclusion_embeddings)[2]
    /\ \E p \in DOMAIN out.results :
         \A k \in 1..2 :
            Dot(ds.explicit[out.results[p].row], Val(req.exclusion_embeddings)[k]) > 0

(***************************************************************************)
(* Further properties of the ranking runs (SpecSearch).                    *)
(***************************************************************************)
\* ranks is a permutation of 1..N that follows scores downwards, gives equal
\* scores ranks in ascending row order, and gives the passing jobs 1..M.
StableRanks(scores, ranks, mask) ==
    /\ {ranks[i] : i \in DOMAIN ranks} = 1..Len(scores)
    /\ \A i, j \in DOMAIN scores :
          ScoreLt(scores[j], scores[i]) => ranks[i] < ranks[j]
    /\ \A i, j \in DOMAIN scores :
          (i < j /\ ScoreEq(scores[i], scores[j])) => ranks[i] < ranks[j]
    /\ {ranks[i] : i \in {r \in DOMAIN mask : mask[r]}}
          = 1..Cardinality({r \in DOMAIN mask : mask[r]})

\* C23: in each of the two signals the ranks are a permutation of 1..N with
\* rank 1 for the highest score, jobs with equal raw scores are ranked in
\* ascending row index, and the jobs that pass the filters hold exactly the
\* ranks 1..M.
C23_RanksStablePermutation ==
    called =>
        /\ StableRanks(out.semantic_scores, out.semantic_ranks, out.mask)
        /\ StableRanks(out.bm25_scores, out.bm25_ranks, out.mask)

\* The same, for a NumPy build whose sort keeps equal keys in index order.
C23_HoldsWhenSortKeepsOrder ==
    sortTies = "asc" => C23_RanksStablePermutation

\* Number of required skills of the job whose lower-cased value is one of
\* the lower-cased words of the lexical query (0 without a query).
MatchedSkills(job, semantic_query) ==
    IF semantic_query = None THEN 0
    ELSE Cardinality({k \in DOMAIN job.required_skills :
            \E w \in DOMAIN Val(semantic_query) :
                Lower(job.required_skills[k]) = Lower(Val(semantic_query)[w])})

\* The job's salary_min is present and meets the min_salary of the filters.
MeetsMinSalary(job, filters) ==
    /\ filters /= None
    /\ Val(filters).min_salary /= None
    /\ job.salary_min /= None
    /\ Val(job.salary_min) >= Val(Val(filters).min_salary)

\* What the call added to the dense score of row i on top of the weighted
\* similarities less the exclusion penalties, in units of 1e-8.
BoostGiven(i) ==
    out.semantic_scores[i].num
      - (  SemanticBase(ds, req.query_embedding, req.weights, i)
         - ExclusionTotal(ds, req.exclusion_embeddings, i))

\* C24: a job that fails the filters gets no boost (its score is -inf); a job
\* that passes gets +0.05 exactly when a min_salary filter is set and its
\* salary_min is present and at least min_salary, plus 0.02 per required
\* skill that is one of the query's lower-cased words, counted up to 3; so
\* the boost lies between 0 and 0.11 and its skill part is at most 0.06.
C24_BoostAmounts ==
    (called /\ ~SearchRaises(ds, req)) =>
        \A i \in Rows :
            IF ~out.mask[i] THEN ~out.semantic_scores[i].fin
            ELSE LET job == ds.jobs[i]
                     salaryPart == IF MeetsMinSalary(job, req.filters)
                                   THEN 5 * Million ELSE 0
                     skillPart == 2 * Million
                                    * Min2(MatchedSkills(job, req.semantic_query), 3)
                 IN  /\ BoostGiven(i) = salaryPart + skillPart
                     /\ skillPart <= 6 * Million
                     /\ BoostGiven(i) >= 0
                     /\ BoostGiven(i) <= 11 * Million

\* A returned job with four matching skills and a salary_min that meets the
\* filter received 0.11, beside a job that fails the filters.
C24_Witness ==
    /\ called /\ ~SearchRaises(ds, req)
    /\ \E i \in Rows :
          /\ out.mask[i]
          /\ MatchedSkills(ds.jobs[i], req.semantic_query) = 4
          /\ MeetsMinSalary(ds.jobs[i], req.filters)
          /\ BoostGiven(i) = 11 * Million
          /\ i \in {out.results[p].row : p \in DOMAIN out.results}
    /\ \E i \in Rows : ~out.mask[i]

(***************************************************************************)
(* Further properties of the example runs (SpecExample).                   *)
(***************************************************************************)
\* The returned rows follow the dense scores downwards, no passing job left
\* out has a higher dense score than a returned one, and among the passing
\* jobs a higher dense score means a higher fused score.
DenseOrdered ==
    /\ \A p, q \in DOMAIN out.results :
          p < q => ScoreLe(out.semantic_scores[out.results[q].row],
                           out.semantic_scores[out.results[p].row])
    /\ \A p \in DOMAIN out.results :
          \A i \in Rows \ Returned :
              out.mask[i] => ScoreLe(out.semantic_scores[i],
                                     out.semantic_scores[out.results[p].row])
    /\ \A i, j \in Rows :
          (out.mask[i] /\ out.mask[j]
             /\ ScoreLt(out.semantic_scores[j], out.semantic_scores[i]))
              => ScoreLt(out.fused_scores[j], out.fused_scores[i])

\* C25: a search without a lexical query returns its results in descending
\* order of dense score, they are the top-K jobs by dense score, and the
\* fused score follows the dense score, whatever the lexical weight
\* (including the default 0.4); the row index does not decide the order.
C25_NoQueryDenseOrder ==
    (called /\ req.semantic_query = None) => DenseOrdered

\* The same, for calls with bm25_weight = 0 only.
C25_HoldsForWeightZero ==
    (called /\ req.semantic_query = None /\ req.bm25_weight = 0) => DenseOrdered

(***************************************************************************)
(* Properties of the serving layer.                                        *)
(***************************************************************************)
\* C26: when a request has been parsed, embedded and searched, the lexical
\* weight the fusion of that search used is the bm25_weight that intent
\* parsing produced for the request, a value between 0 and 1.
C26_IntentWeightUsed ==
    (resp /= NoCall /\ called) =>
        /\ intent.bm25_weight \in 0..OneW
        /\ req.bm25_weight = intent.bm25_weight

\* The weight search used is always its default 0.4, and the parsed weight
\* is always within [0, 1].
C26_DefaultWeightUsed ==
    (resp /= NoCall /\ called) =>
        /\ intent.bm25_weight \in 0..OneW
        /\ req.bm25_weight = DefaultBm25Weight

\* Number of requests of the client admitted at a time t with a <= t < a + 60.
AdmittedInWindow(ip, a) ==
    Cardinality({k \in DOMAIN admitted[ip] :
                    a <= admitted[ip][k] /\ admitted[ip][k] < a + 60})

\* In every window of 60 seconds at most 30 requests of a client were admitted.
WindowBound ==
    \A ip \in DOMAIN admitted : \A a \in 0..now : AdmittedInWindow(ip, a) <= 30

\* A request answered with 429 is not added to the request log and leaves
\* the admitted requests and the session store as they were.
RejectedLeavesNoTrace ==
    (resp' /= NoCall /\ resp'.call = "search" /\ resp'.status = 429) =>
        /\ admitted' = admitted
        /\ _sessions' = _sessions
        /\ \A ip \in DOMAIN _request_log :
              Len(_request_log'[ip]) <= Len(_request_log[ip])

\* Only the log and the count of the client that sent the request change.
OtherClientsUntouched ==
    \A ip \in DOMAIN _request_log :
        (_request_log'[ip] /= _request_log[ip] \/ admitted'[ip] /= admitted[ip])
            => (resp' /= NoCall /\ resp'.call = "search" /\ resp'.client_ip = ip)

\* C27: with requests handled one at a time, each client IP has at most 30
\* requests admitted in every window of 60 seconds; a rejected request
\* (HTTP 429) is not recorded in the request log and comes before any
\* session is created or history appended; a request of one IP never
\* changes the log or the count of another IP.
C27_RateLimitPerIP ==
    []WindowBound /\ [][RejectedLeavesNoTrace /\ OtherClientsUntouched]_vars

\* A client was rejected with 30 timestamps of two different times in its
\* log, while the other client had been admitted, and earlier timestamps
\* of the rejected client had already been pruned.
C27_Witness ==
    /\ resp /= NoCall /\ resp.call = "search" /\ resp.status = 429
    /\ Len(_request_log[resp.client_ip]) = 30
    /\ Len(admitted[resp.client_ip]) > 30
    /\ \E i, j \in DOMAIN _request_log[resp.client_ip] :
          _request_log[resp.client_ip][i] /= _request_log[resp.client_ip][j]
    /\ \E ip \in DOMAIN admitted : ip /= resp.client_ip /\ Len(admitted[ip]) > 0

\* Number of occurrences of v in the sequence s.
CountOf(s, v) == Cardinality({k \in DOMAIN s : s[k] = v})

\* Every admitted timestamp that is still younger than the window is in the
\* request log, as often as it was admitted.
NoAdmittedTimestampLost ==
    \A ip \in DOMAIN admitted :
        \A k \in DOMAIN admitted[ip] :
            now - admitted[ip][k] < 60 =>
                CountOf(_request_log[ip], admitted[ip][k])
                    >= CountOf(admitted[ip], admitted[ip][k])

\* C28: with requests of one IP handled concurrently, every interleaving of
\* the prune, length-check and append steps still admits at most 30
\* requests in every window of 60 seconds and never loses the timestamp of
\* an admitted request.
C28_ConcurrentRateLimit == WindowBound /\ NoAdmittedTimestampLost

\* The two halves of the claim, one at a time.
C28_ConcurrentWindowBound == WindowBound
C28_ConcurrentNoLoss == NoAdmittedTimestampLost

\* The session the handler got from get_or_create, as stored after the step.
SessionReturned == _sessions'[Val(resp'.session)]

\* The id sent was last accessed at most 30 minutes before the call.
StillFresh ==
    /\ TruthyStr(resp'.session_id)
    /\ Val(resp'.session_id) \in DOMAIN _sessions
    /\ now - _sessions[Val(resp'.session_id)].last_accessed <= 30 * 60

\* One admitted request: what get_or_create returned and what it left in
\* the store (the handler then appends the query to the history).
SessionLifetimeStep ==
    admitted' /= admitted =>
        /\ TruthyStr(resp'.session_id) => SessionReturned.id = Val(resp'.session_id)
        /\ ~TruthyStr(resp'.session_id) => SessionReturned.id \notin DOMAIN _sessions
        /\ SessionReturned.last_accessed = now
        /\ SessionReturned.history =
              IF StillFresh
              THEN Append(_sessions[Val(resp'.session_id)].history, resp'.query)
              ELSE <<resp'.query>>
        /\ \A sid \in DOMAIN _sessions :
              now - _sessions[sid].last_accessed > 30 * 60 =>
                  \/ sid \notin DOMAIN _sessions'
                  \/ sid = SessionReturned.id /\ SessionReturned.history = <<resp'.query>>
        /\ \A sid \in DOMAIN _sessions' :
              now - _sessions'[sid].last_accessed <= 30 * 60

\* After clear(id) the store has no session of that id.
ClearedIsGone ==
    (resp /= NoCall /\ resp.call = "clear") => resp.session_id \notin DOMAIN _sessions

\* C29: get_or_create(id) returns the stored session with its history
\* intact and last_accessed refreshed exactly when the id was last accessed
\* at most 30 minutes ago; the call removes every session unaccessed for
\* more than 30 minutes, so that afterwards no stored session is older than
\* the TTL; for an expired or cleared id it returns a session of that id
\* with an empty history.
C29_SessionLifetime == []ClearedIsGone /\ [][SessionLifetimeStep]_vars

\* Reached: a named session used again exactly 30 minutes after its last
\* access keeps its first turn, while the same call removes the session
\* issued 40 minutes before.
C29_Witness ==
    /\ resp /= NoCall /\ resp.call = "search"
    /\ admitted[SessionClient] = <<0, SessionStep, SessionStep + 30 * 60>>
    /\ issued = 1
    /\ UuidPool[1] \notin DOMAIN _sessions
    /\ "s1" \in DOMAIN _sessions
    /\ Len(_sessions["s1"].history) = 2
    /\ _sessions["s1"].last_accessed = SessionStep + 30 * 60

\* The number of attempts that fail before the first success (3: all fail).
FailuresFirst(api) ==
    IF api[1] /= None THEN 0 ELSE IF api[2] /= None THEN 1
    ELSE IF api[3] /= None THEN 2 ELSE 3

\* The last embed call went to the embedding service.
ApiCalled == ecall /= NoCall /\ ecall.attempts > 0

RetrySchedule ==
    ApiCalled =>
        LET f == FailuresFirst(ecall.api)
        IN  /\ ecall.attempts <= 3
            /\ ecall.attempts = IF f < 3 THEN f + 1 ELSE 3
            /\ ecall.slept = [k \in 1..(ecall.attempts - 1) |-> 2 ^ k]
            /\ ecall.raised = (f = 3)
            /\ f < 3 =>
                  /\ ecall.vec = Normalize(Val(ecall.api[f + 1]))
                  /\ \E k \in DOMAIN _cache :
                        _cache[k] = [text |-> ecall.text, vec |-> ecall.vec]
            /\ f = 3 => \A k \in DOMAIN _cache : _cache[k].text /= ecall.text

\* An embed of the text whose last embed raised goes to the service again.
RaisedIsRetried ==
    (/\ ecall /= NoCall /\ ecall.raised
     /\ ecall' /= NoCall /\ ecall'.text = ecall.text)
        => ecall'.attempts >= 1

\* C30: _call_api makes at most 3 attempts per embed call; it returns the
\* normalized vector of the first successful attempt, waits 2 and then 4
\* seconds (2^k after failed attempt k) before retrying and re-raises after
\* the third failure in a row; when it raises, embed stores nothing in the
\* cache for the text, and a later embed of the same text calls the service
\* again.
C30_RetriesAndCache == []RetrySchedule /\ [][RaisedIsRetried]_vars

\* Reached: a call that succeeded on its third attempt after waiting 2 and
\* 4 seconds and was cached, made after an embed that had raised and left
\* the cache empty (the clock shows the 6 seconds of that call as well).
C30_Witness ==
    /\ ApiCalled
    /\ ecall.attempts = 3 /\ ~ecall.raised
    /\ ecall.slept = <<2, 4>>
    /\ now = 12
    /\ _cache = <<[text |-> ecall.text, vec |-> ecall.vec]>>

=============================================================================
